---- MODULE Spec2Model ----
(***************************************************************************)
(* A model of the sandboxed code-execution service: the session volume     *)
(* registry and the container runner (src/core/docker_runner.py), the      *)
(* shell endpoint (src/main.py) and the path guard of the file API         *)
(* (src/api/files.py), with the container engine as their environment.     *)
(*                                                                         *)
(* Strings that the code inspects are sequences: a session id is a         *)
(* sequence of characters, a path a sequence of segments and an error      *)
(* detail a sequence of words.                                             *)
(*                                                                         *)
(* SpecCalls applies get_session_volume_name, the environment merge of     *)
(* run_in_container and each file handler's code after its validation to   *)
(* arguments drawn from bounded sets, one application per behaviour.       *)
(* SpecConcurrent interleaves the steps of calls of run_in_container.      *)
(***************************************************************************)
EXTENDS Integers, Sequences, FiniteSets, TLC

\* ------------------------------------------------------------------ bounds

\* Number of caller slots (requests that may be in flight together).
NumProcs == 2
\* Number of runner calls (container names drawn) in one behaviour.
MaxCalls == 2
\* Longest user path, in segments.
MaxSegs == 2
\* Longest tail of a session id after its filler, in characters.
MaxTail == 2
\* Longest listing handed to the parser of list_directory, in lines.
MaxLines == 2

Procs == 1..NumProcs

None == "None"

\* ------------------------------------------------------- program constants

WORKSPACE_DIR_INSIDE_CONTAINER == <<"workspace">>
SESSION_VOLUME_PREFIX ==
    <<"s", "a", "n", "d", "b", "o", "x", "_", "s", "e", "s", "s", "i", "o", "n", "_">>
SanitizedLimit == 50
UnknownExit == 0 - 1

HTTP_200 == 200
HTTP_201 == 201
HTTP_204 == 204
HTTP_400 == 400
HTTP_403 == 403
HTTP_404 == 404
HTTP_408 == 408
HTTP_409 == 409
HTTP_422 == 422
HTTP_500 == 500

\* ------------------------------------------------------------ session ids

Lower == {"a", "b", "c", "d", "e", "f", "g", "h", "i", "j", "k", "l", "m",
          "n", "o", "p", "q", "r", "s", "t", "u", "v", "w", "x", "y", "z"}
Upper == {"A", "B", "C", "D", "E", "F", "G", "H", "I", "J", "K", "L", "M",
          "N", "O", "P", "Q", "R", "S", "T", "U", "V", "W", "X", "Y", "Z"}
Digits == {"0", "1", "2", "3", "4", "5", "6", "7", "8", "9"}
\* The class [a-zA-Z0-9_\-.] of the substitution.
SafeChars == Lower \cup Upper \cup Digits \cup {"_", "-", "."}

Take(s, n) == IF Len(s) <= n THEN s ELSE SubSeq(s, 1, n)

\* The substitution with nothing replaced.
sanitize_keeping(name) == Take(name, SanitizedLimit)

\* re.sub(r'[^a-zA-Z0-9_\-.]', '_', name)[:50]
sanitize_for_volume_name(name) ==
    Take([i \in 1..Len(name) |-> IF name[i] \in SafeChars THEN name[i] ELSE "_"],
         SanitizedLimit)

get_session_volume_name(session_id) ==
    SESSION_VOLUME_PREFIX \o sanitize_for_volume_name(session_id)

\* The session ids callers use here.
SessionIds == {<<"a">>, <<"/">>}
VolumeNames == {get_session_volume_name(s) : s \in SessionIds}

\* ---------------------------------------------------------------- commands

Files == {"a.txt"}
Contents == {"x"}

\* What a container is asked to run: `echo -n c > f`, `cat f`, `exit n`,
\* `sleep 999`; "empty" is the empty command string.
ExitCodes == {5}
WriteCmds == {[op |-> "write", file |-> f, arg |-> c, code |-> 0] : f \in Files, c \in Contents}
CatCmds == {[op |-> "cat", file |-> f, arg |-> None, code |-> 0] : f \in Files}
ExitCmds == {[op |-> "exit", file |-> None, arg |-> None, code |-> n] : n \in ExitCodes}
SleepCmd == [op |-> "sleep", file |-> None, arg |-> None, code |-> 0]
EmptyCmd == [op |-> "empty", file |-> None, arg |-> None, code |-> 0]
NoCmd == [op |-> None, file |-> None, arg |-> None, code |-> 0]
RunCmds == WriteCmds \cup CatCmds \cup ExitCmds \cup {SleepCmd}
\* Phase 1 of the script endpoint: the shell command that writes script.py.
ScriptWriteCmd == [op |-> "script", file |-> None, arg |-> None, code |-> 0]

NoSuchFile == "No such file or directory"

\* What the user code of a chart request does: draws a figure, draws none,
\* raises (one line on stderr), writes many lines to stderr and raises, or
\* draws a figure that plt.savefig then fails to save.
ChartKinds == {"plot", "noplot", "error", "longerror", "savefail"}
ChartCmds == {[op |-> "chart", file |-> None, arg |-> k, code |-> 0] : k \in ChartKinds}
TailLines == 10
NoPlotDetected == "No matplotlib plot detected to save."
UserCodeError == "Error during user code execution"
LongStderr == "a stderr of more lines than the preview keeps"
CannotOpenScript == "can't open file '/workspace/script.py'"

\* The produced program with sys.exit(2) where no figure is open.
script_exit_two(kind) ==
    CASE kind \in {"error", "longerror"} -> 1
      [] kind = "noplot" -> 2
      [] kind = "savefail" -> 3
      [] OTHER -> 0

\* The program create_execution_script produces, run on user code of each
\* kind: an exception of the user code exits 1; with no figure open the
\* message goes to stderr and the program runs on to sys.exit(0); an
\* exception while saving exits 3; a saved figure ends in sys.exit(0).
script_exit(kind) ==
    CASE kind \in {"error", "longerror"} -> 1
      [] kind = "savefail" -> 3
      [] OTHER -> 0

\* What that program leaves on stderr.
script_stderr(kind) ==
    CASE kind = "noplot" -> NoPlotDetected
      [] kind = "error" -> UserCodeError
      [] kind = "longerror" -> LongStderr
      [] kind = "savefail" -> "Error saving plot"
      [] OTHER -> ""

\* Whether that program wrote the image file.
script_saves(kind) == kind = "plot"

\* Whether plt.close('all') ran before that program exited: it is the finally
\* clause of the try that saves, which the sys.exit(1) of the handler around
\* the user code never reaches; the sys.exit(3) inside that try passes
\* through it.
script_closes(kind) == kind \notin {"error", "longerror"}

\* str.splitlines() on the texts a container can leave on its streams.
splitlines(text) ==
    CASE text = "" -> <<>>
      [] text = LongStderr -> [i \in 1..(TailLines + 1) |-> ToString(i)] \o <<UserCodeError>>
      [] OTHER -> <<text>>

\* lines[-n:]
LastLines(lines, n) ==
    IF Len(lines) <= n THEN lines ELSE SubSeq(lines, Len(lines) - n + 1, Len(lines))

\* ------------------------------------------------------------------ errors

\* An exception in flight: its class, and for an HTTPException its status
\* code and detail.
NoExc == [type |-> None, status |-> 0, detail |-> <<>>]
Exc(t) == [type |-> t, status |-> 0, detail |-> <<>>]
HTTPException(code, words) == [type |-> "HTTPException", status |-> code, detail |-> words]

\* How a call of run_in_container or get_or_create_session_volume ended.
NoResult == [how |-> None, exc |-> NoExc, exit_code |-> UnknownExit,
             stdout |-> "", stderr |-> ""]
Returned(code, out, err) == [how |-> "return", exc |-> NoExc, exit_code |-> code,
                             stdout |-> out, stderr |-> err]
Raised(e) == [how |-> "raise", exc |-> e, exit_code |-> UnknownExit,
              stdout |-> "", stderr |-> ""]

\* An HTTP response.
NoResponse == [status |-> 0, detail |-> <<>>, exit_code |-> UnknownExit,
               stdout |-> "", stderr |-> ""]
ErrorResponse(e) == [status |-> e.status, detail |-> e.detail, exit_code |-> UnknownExit,
                     stdout |-> "", stderr |-> ""]

\* ------------------------------------------------------------------- paths

\* A user path as typed: whether it starts with '/', and its segments.
Segments == {".", "..", "a", "etc", "workspace"}
SeqsUpTo(S, n) == UNION {[1..k -> S] : k \in 0..n}
UserPaths == [abs : BOOLEAN, segs : SeqsUpTo(Segments, MaxSegs)]
EmptyPath == [abs |-> FALSE, segs |-> <<>>]
DotPath == [abs |-> FALSE, segs |-> <<".">>]

\* PurePosixPath(s): the parts of s, with '.' segments and empty segments dropped.
PurePosixPath(user_path) ==
    [abs |-> user_path.abs, parts |-> SelectSeq(user_path.segs, LAMBDA x : x # ".")]

base_workspace == [abs |-> TRUE, parts |-> WORKSPACE_DIR_INSIDE_CONTAINER]

\* base / user_path: an absolute right operand replaces the left one.
JoinPath(base, user_path) ==
    LET u == PurePosixPath(user_path)
    IN IF u.abs THEN u ELSE [abs |-> base.abs, parts |-> base.parts \o u.parts]

\* path.parents: the strict ancestors of path.
Parents(path) ==
    {[abs |-> path.abs, parts |-> SubSeq(path.parts, 1, k)] : k \in 0..(Len(path.parts) - 1)}

\* (...).resolve(): pure paths have no such method, so the attribute lookup
\* raises AttributeError whatever the path is.
resolve(path) == [exc |-> Exc("AttributeError"), path |-> path]

InvalidPathDenied == <<"Invalid", "path", ":", "Access", "denied", "outside", "workspace">>
InvalidPathFormat == <<"Invalid", "path", "format", "or", "resolution", "error">>

\* The try block of validate_and_resolve_path: the exception it ends with
\* (NoExc when it returns) and the path it returns.
validate_try(user_path) ==
    LET r == resolve(JoinPath(base_workspace, user_path))
    IN IF r.exc # NoExc THEN r
       ELSE IF base_workspace \notin Parents(r.path) /\ r.path # base_workspace
            THEN [exc |-> HTTPException(HTTP_400, InvalidPathDenied), path |-> r.path]
            ELSE r

\* validate_and_resolve_path, with the containment check left out.
validate_unchecked(session_id, user_path) ==
    [exc |-> NoExc, path |-> JoinPath(base_workspace, user_path)]

\* validate_and_resolve_path: `except Exception` catches whatever the try
\* block raised, the HTTPException of the containment check included.
validate_and_resolve_path(session_id, user_path) ==
    LET t == validate_try(IF user_path = EmptyPath THEN DotPath ELSE user_path)
    IN IF t.exc # NoExc
       THEN [exc |-> HTTPException(HTTP_400, InvalidPathFormat), path |-> t.path]
       ELSE t

\* ------------------------------------------------------------------- state

VARIABLES
    pc,             \* where each caller is
    req,            \* the request or call each caller makes
    container,      \* run_in_container: the handle containers.run returned (0: None)
    exit_code,      \* run_in_container: exit_code
    stdout_str,     \* run_in_container: stdout_str
    stderr_str,     \* run_in_container: stderr_str
    session_volume, \* the volume handle get_or_create_session_volume returned
    result,         \* how the call of run_in_container / get_or_create ended
    resp,           \* the HTTP response of an endpoint
    calls,          \* history: the outcome of each engine call the caller made
    expected,       \* history: what the session's last shell write left in the file read
    containers,     \* engine: the containers that exist, by uuid
    volumes,        \* engine: the volumes that exist, by name, with their files
    nextId,         \* the uuid4 draws so far
    lastWrite,      \* history: per volume name, what the last successful shell write wrote
    temp_dir,       \* chart: the host directory tempfile.mkdtemp() made for the request
    background_tasks, \* chart: the cleanup tasks added, and whether a response carries them
    call,           \* a function or handler body applied on its own: which, and its arguments
    value           \* what that application returned

vars == <<pc, req, container, exit_code, stdout_str, stderr_str, session_volume,
          result, resp, calls, expected, containers, volumes, nextId, lastWrite,
          temp_dir, background_tasks, call, value>>

NoSession == <<>>
NoVolume == <<>>
\* The bind path of a temporary mount: none, the working directory, or another.
NoBind == <<>>
TempBinds == {NoBind, WORKSPACE_DIR_INSIDE_CONTAINER, <<"tmp">>}
NoReq == [kind |-> None, session_id |-> NoSession, command |-> NoCmd, path |-> EmptyPath,
          uuid |-> 0, phase |-> 0, temp |-> NoBind]
NoCalls == [get |-> None, create |-> None, run |-> None, wait |-> None,
            logs |-> None, remove |-> None]
EmptyVolume == [f \in Files |-> None]
NoVol == [exists |-> FALSE, files |-> EmptyVolume]
Ids == 1..MaxCalls
NoContainer == [state |-> "absent", command |-> NoCmd, mount |-> NoVolume, temp |-> NoBind,
                mode |-> None, network |-> None,
                code |-> UnknownExit, out |-> "", err |-> "", closed |-> FALSE]

\* The host temporary directory of a chart request and what it holds.
NoTempDir == [exists |-> FALSE, script |-> FALSE, output |-> FALSE]
\* The cleanup tasks added to background_tasks; `attached` once the endpoint
\* returned a response, which then carries them.
NoTasks == [added |-> 0, attached |-> FALSE]

FileKinds == {"list", "read", "write", "delete", "mkdir"}
HeavyKinds == {"run", "shell", "script", "chart"}
EndpointKinds == {"shell", "script", "chart"} \cup FileKinds

\* Where a caller is once run_in_container is over: back in its endpoint, or done.
AfterCall(p) == IF req[p].kind \in EndpointKinds THEN "returned" ELSE "done"

\* No function is applied on its own; nothing has been returned.
NoCall == [fn |-> None, args |-> <<>>]
NoValue == [returned |-> FALSE]

\* The service after start-up: no request in flight, an empty engine.
Quiet ==
    /\ pc = [p \in Procs |-> "idle"]
    /\ req = [p \in Procs |-> NoReq]
    /\ container = [p \in Procs |-> 0]
    /\ exit_code = [p \in Procs |-> UnknownExit]
    /\ stdout_str = [p \in Procs |-> ""]
    /\ stderr_str = [p \in Procs |-> ""]
    /\ session_volume = [p \in Procs |-> NoVolume]
    /\ result = [p \in Procs |-> NoResult]
    /\ resp = [p \in Procs |-> NoResponse]
    /\ calls = [p \in Procs |-> NoCalls]
    /\ expected = [p \in Procs |-> None]
    /\ containers = [c \in Ids |-> NoContainer]
    /\ volumes = [v \in VolumeNames |-> NoVol]
    /\ nextId = 0
    /\ lastWrite = [v \in VolumeNames |-> None]
    /\ temp_dir = [p \in Procs |-> NoTempDir]
    /\ background_tasks = [p \in Procs |-> NoTasks]

Init ==
    /\ Quiet
    /\ call = NoCall
    /\ value = NoValue

engineVars == <<containers, volumes>>
localVars == <<container, exit_code, stdout_str, stderr_str>>
histVars == <<expected, lastWrite>>
chartVars == <<temp_dir, background_tasks>>
callVars == <<call, value>>
programVars == <<pc, req, session_volume, result, resp, calls, nextId,
                 localVars, engineVars, histVars, chartVars>>

\* A request that launches containers runs alone; calls of
\* get_or_create_session_volume interleave with one another.
Alone(p) == \A q \in Procs \ {p} : pc[q] = "idle"
OnlyEnsures(p) == \A q \in Procs \ {p} : pc[q] = "idle" \/ req[q].kind = "ensure"

\* ------------------------------------------------- get_or_create_session_volume

FailedToGet == <<"Failed", "to", "get", "session", "volume">>
FailedToCreate == <<"Failed", "to", "create", "session", "volume">>

MountConflict == <<"Volume", "mount", "configuration", "conflict">>

\* The conflict check with no effect.
mount_conflict_never(temp, working_dir) == FALSE

\* working_dir in [v_spec['bind'] for v_spec in volumes_to_mount.values()]
mount_conflict(temp, working_dir) == temp = working_dir

\* The caller goes on after get_or_create_session_volume returned `name`:
\* run_in_container refuses a temporary mount bound to the working directory,
\* else adds the session mount and launches; a direct call is over.
AfterVolume(p, name) ==
    /\ session_volume' = [session_volume EXCEPT ![p] = name]
    /\ IF req[p].kind = "ensure"
       THEN /\ pc' = [pc EXCEPT ![p] = "done"]
            /\ result' = [result EXCEPT ![p] = Returned(0, "", "")]
       ELSE IF mount_conflict(req[p].temp, WORKSPACE_DIR_INSIDE_CONTAINER)
            THEN /\ pc' = [pc EXCEPT ![p] = AfterCall(p)]
                 /\ result' = [result EXCEPT ![p] = Raised(HTTPException(HTTP_500, MountConflict))]
            ELSE /\ pc' = [pc EXCEPT ![p] = "launch"]
                 /\ UNCHANGED result

\* get_or_create_session_volume raised: run_in_container re-raises the
\* HTTPException before any container is created.
VolumeFailed(p, e) ==
    /\ pc' = [pc EXCEPT ![p] = AfterCall(p)]
    /\ result' = [result EXCEPT ![p] = Raised(e)]
    /\ UNCHANGED session_volume

\* get_or_create_session_volume going on to volumes.create after a volume
\* was found as well.
VolGetThenCreate(p) ==
    /\ pc[p] = "vol_get"
    /\ LET name == get_session_volume_name(req[p].session_id)
       IN \/ /\ calls' = [calls EXCEPT ![p].get = IF volumes[name].exists
                                                   THEN "found" ELSE "NotFound"]
             /\ pc' = [pc EXCEPT ![p] = "vol_create"]
             /\ UNCHANGED <<session_volume, result>>
          \/ /\ calls' = [calls EXCEPT ![p].get = "APIError"]
             /\ VolumeFailed(p, HTTPException(HTTP_500, FailedToGet))
    /\ UNCHANGED <<callVars, chartVars, req, resp, nextId, localVars, engineVars, histVars>>

\* docker_client.volumes.get(volume_name)
VolGet(p) ==
    /\ pc[p] = "vol_get"
    /\ LET name == get_session_volume_name(req[p].session_id)
       IN \/ /\ volumes[name].exists
             /\ calls' = [calls EXCEPT ![p].get = "found"]
             /\ AfterVolume(p, name)
          \/ /\ ~volumes[name].exists
             /\ calls' = [calls EXCEPT ![p].get = "NotFound"]
             /\ pc' = [pc EXCEPT ![p] = "vol_create"]
             /\ UNCHANGED <<session_volume, result>>
          \/ /\ calls' = [calls EXCEPT ![p].get = "APIError"]
             /\ VolumeFailed(p, HTTPException(HTTP_500, FailedToGet))
    /\ UNCHANGED <<callVars, chartVars, req, resp, nextId, localVars, engineVars, histVars>>

\* docker_client.volumes.create(name=volume_name, driver='local') after NotFound.
\* When another caller created the volume in between, the engine either hands
\* the existing volume back or reports a name conflict.
VolCreate(p) ==
    /\ pc[p] = "vol_create"
    /\ LET name == get_session_volume_name(req[p].session_id)
       IN \/ /\ ~volumes[name].exists
             /\ volumes' = [volumes EXCEPT ![name] = [exists |-> TRUE, files |-> EmptyVolume]]
             /\ calls' = [calls EXCEPT ![p].create = "created"]
             /\ AfterVolume(p, name)
          \/ /\ volumes[name].exists
             /\ calls' = [calls EXCEPT ![p].create = "existing"]
             /\ AfterVolume(p, name)
             /\ UNCHANGED volumes
          \/ /\ calls' = [calls EXCEPT ![p].create =
                            IF volumes[name].exists THEN "conflict" ELSE "APIError"]
             /\ VolumeFailed(p, HTTPException(HTTP_500, FailedToCreate))
             /\ UNCHANGED volumes
    /\ UNCHANGED <<callVars, chartVars, req, resp, nextId, localVars, containers, histVars>>

StartEnsure(p) ==
    /\ pc[p] = "idle"
    /\ OnlyEnsures(p)
    /\ \E s \in SessionIds :
         req' = [req EXCEPT ![p] = [NoReq EXCEPT !.kind = "ensure", !.session_id = s]]
    /\ pc' = [pc EXCEPT ![p] = "vol_get"]
    /\ UNCHANGED <<callVars, chartVars, session_volume, result, resp, calls, nextId, localVars, engineVars, histVars>>

\* ------------------------------------------------------------ run_in_container

TimedOut == <<"Container", "execution", "timed", "out">>
ImageMissing == <<"Execution", "environment", "image", "not", "found">>
DockerApiError == <<"Docker", "API", "error">>
BadArgument == <<"Server", "configuration", "error">>
Unexpected == <<"An", "unexpected", "server", "error", "occurred">>

\* The handlers of the try around container.wait without the APIError clause.
wait_except_raising(e) ==
    IF e.type \in {"ReadTimeout", "ConnectionError"} THEN HTTPException(HTTP_408, TimedOut)
    ELSE e

\* The handlers of the try around container.wait: a ReadTimeout or a
\* ConnectionError raises HTTPException(408), an APIError is logged and
\* swallowed, anything else propagates.
wait_except(e) ==
    IF e.type \in {"ReadTimeout", "ConnectionError"} THEN HTTPException(HTTP_408, TimedOut)
    ELSE IF e.type = "APIError" THEN NoExc
    ELSE e

\* The try around container.logs without its APIError clause.
logs_except_raising(e) == e

\* The handlers of the try around container.logs.
logs_except(e) == IF e.type = "APIError" THEN NoExc ELSE e

\* The outer handlers with `except HTTPException: raise` ahead of them.
run_except_passing(e) ==
    IF e.type = "HTTPException" THEN e
    ELSE IF e.type = "ImageNotFound" THEN HTTPException(HTTP_500, ImageMissing)
    ELSE IF e.type = "APIError" THEN HTTPException(HTTP_500, DockerApiError)
    ELSE IF e.type = "TypeError" THEN HTTPException(HTTP_500, BadArgument)
    ELSE HTTPException(HTTP_500, Unexpected)

\* The handlers of the outer try, in their order: ImageNotFound, APIError,
\* TypeError, then Exception, which also catches an HTTPException raised
\* inside the try.
run_except(e) ==
    IF e.type = "ImageNotFound" THEN HTTPException(HTTP_500, ImageMissing)
    ELSE IF e.type = "APIError" THEN HTTPException(HTTP_500, DockerApiError)
    ELSE IF e.type = "TypeError" THEN HTTPException(HTTP_500, BadArgument)
    ELSE HTTPException(HTTP_500, Unexpected)

\* What the container of the current phase runs.
CommandOf(r) == IF r.kind = "script" /\ r.phase = 1 THEN ScriptWriteCmd ELSE r.command

\* The network_mode each caller passes: the shell endpoint asks for the
\* bridge, as does phase 2 of a script; every other caller keeps the default.
network_mode(r) ==
    IF r.kind = "shell" \/ (r.kind = "script" /\ r.phase = 2) THEN "bridge" ELSE "none"

\* A container no caller holds a handle to: nothing reads its exit code or its
\* output any more, so the engine's entry for it is kept bare.
Leaked == [NoContainer EXCEPT !.state = "leaked"]

\* docker_client.containers.run(..., detach=True): the engine creates the
\* container and starts it. ImageNotFound leaves nothing behind; an APIError
\* comes either before the container is created or when starting it fails,
\* and then the created container stays in the engine with no handle returned.
Launch(p) ==
    /\ pc[p] = "launch"
    /\ LET c == req[p].uuid
       IN \/ /\ containers' = [containers EXCEPT ![c] =
                                 [NoContainer EXCEPT !.state = "running",
                                                     !.command = CommandOf(req[p]),
                                                     !.mount = session_volume[p],
                                                     !.temp = req[p].temp,
                                                     !.mode = IF req[p].temp = NoBind
                                                              THEN None ELSE "rw",
                                                     !.network = network_mode(req[p])]]
             /\ container' = [container EXCEPT ![p] = c]
             /\ calls' = [calls EXCEPT ![p].run = "ok"]
             /\ pc' = [pc EXCEPT ![p] = "wait"]
             /\ UNCHANGED result
          \/ /\ \E e \in {"ImageNotFound", "APIError"} :
                  /\ calls' = [calls EXCEPT ![p].run = e]
                  /\ result' = [result EXCEPT ![p] = Raised(run_except(Exc(e)))]
             /\ pc' = [pc EXCEPT ![p] = "finally"]
             /\ UNCHANGED <<containers, container>>
          \/ /\ containers' = [containers EXCEPT ![c] = Leaked]
             /\ calls' = [calls EXCEPT ![p].run = "APIError on start"]
             /\ result' = [result EXCEPT ![p] = Raised(run_except(Exc("APIError")))]
             /\ pc' = [pc EXCEPT ![p] = "finally"]
             /\ UNCHANGED container
    /\ UNCHANGED <<callVars, chartVars, req, resp, nextId, exit_code, stdout_str, stderr_str, session_volume,
                   volumes, histVars>>

\* The files a container sees in its working directory: those of the volume
\* mounted there, or its own empty layer.
Workspace(c) ==
    IF containers[c].mount = NoVolume THEN EmptyVolume ELSE volumes[containers[c].mount].files

\* The engine: a running container's command runs to its end. `sleep` never ends.
ContainerExit(c) ==
    /\ containers[c].state = "running"
    /\ LET k == containers[c]
           cmd == k.command
           ws == Workspace(c)
           found == cmd.op = "cat" /\ ws[cmd.file] # None
           script == k.temp = WORKSPACE_DIR_INSIDE_CONTAINER
           code == CASE cmd.op \in {"write", "script"} -> 0
                     [] cmd.op = "cat" -> IF found THEN 0 ELSE 1
                     [] cmd.op = "chart" -> IF ~script THEN 2 ELSE script_exit(cmd.arg)
                     [] OTHER -> cmd.code
           out == IF found THEN ws[cmd.file] ELSE ""
           err == CASE cmd.op = "cat" /\ ~found -> NoSuchFile
                    [] cmd.op = "chart" /\ ~script -> CannotOpenScript
                    [] cmd.op = "chart" -> script_stderr(cmd.arg)
                    [] OTHER -> ""
           owner == CHOOSE p \in Procs : container[p] = c
           vn == get_session_volume_name(req[owner].session_id)
           shell == req[owner].kind = "shell"
       IN /\ cmd.op # "sleep"
          /\ containers' = [containers EXCEPT ![c].state = "exited", ![c].code = code,
                                              ![c].out = out, ![c].err = err,
                                              ![c].closed = cmd.op = "chart" /\ script
                                                              /\ script_closes(cmd.arg)]
          /\ volumes' = IF cmd.op = "write" /\ k.mount # NoVolume
                        THEN [volumes EXCEPT ![k.mount].files[cmd.file] = cmd.arg]
                        ELSE volumes
          /\ expected' = IF cmd.op = "cat" /\ shell /\ req[owner].session_id # NoSession
                         THEN [expected EXCEPT ![owner] = lastWrite[vn]]
                         ELSE expected
          /\ temp_dir' = IF cmd.op = "chart" /\ script_saves(cmd.arg) /\ script
                         THEN [temp_dir EXCEPT ![owner].output = TRUE]
                         ELSE temp_dir
    /\ UNCHANGED <<callVars, pc, req, resp, result, calls, nextId, session_volume, localVars, lastWrite,
                   background_tasks>>

\* container.wait(timeout=timeout)
Wait(p) ==
    /\ pc[p] = "wait"
    /\ LET c == container[p]
       IN \/ /\ containers[c].state = "exited"
             /\ exit_code' = [exit_code EXCEPT ![p] = containers[c].code]
             /\ calls' = [calls EXCEPT ![p].wait = "exit"]
             /\ pc' = [pc EXCEPT ![p] = "logs"]
             /\ UNCHANGED result
          \/ /\ \E e \in {"ReadTimeout", "APIError"} :
                  LET x == wait_except(Exc(e))
                  IN /\ calls' = [calls EXCEPT ![p].wait = e]
                     /\ IF x = NoExc
                        THEN /\ pc' = [pc EXCEPT ![p] = "logs"]
                             /\ UNCHANGED result
                        ELSE /\ pc' = [pc EXCEPT ![p] = "finally"]
                             /\ result' = [result EXCEPT ![p] = Raised(run_except(x))]
             /\ UNCHANGED exit_code
    /\ UNCHANGED <<callVars, chartVars, req, resp, nextId, container, stdout_str, stderr_str, session_volume,
                   engineVars, histVars>>

\* container.logs(...) twice, the decoding, and `return exit_code, stdout_str, stderr_str`.
Logs(p) ==
    /\ pc[p] = "logs"
    /\ LET c == container[p]
       IN \/ /\ stdout_str' = [stdout_str EXCEPT ![p] = containers[c].out]
             /\ stderr_str' = [stderr_str EXCEPT ![p] = containers[c].err]
             /\ calls' = [calls EXCEPT ![p].logs = "ok"]
             /\ result' = [result EXCEPT ![p] =
                             Returned(exit_code[p], containers[c].out, containers[c].err)]
          \/ /\ \E e \in {"APIError", "ConnectionError"} :
                  LET x == logs_except(Exc(e))
                  IN /\ calls' = [calls EXCEPT ![p].logs = e]
                     /\ result' = [result EXCEPT ![p] =
                                     IF x = NoExc
                                     THEN Returned(exit_code[p], stdout_str[p], stderr_str[p])
                                     ELSE Raised(run_except(x))]
             /\ UNCHANGED <<stdout_str, stderr_str>>
    /\ pc' = [pc EXCEPT ![p] = "finally"]
    /\ UNCHANGED <<callVars, chartVars, req, resp, nextId, container, exit_code, session_volume,
                   engineVars, histVars>>

\* Finally, with a failed removal raised instead of swallowed.
FinallyRaising(p) ==
    /\ pc[p] = "finally"
    /\ IF container[p] = 0
       THEN UNCHANGED <<containers, calls, result>>
       ELSE \/ /\ containers' = [containers EXCEPT ![container[p]] = NoContainer]
               /\ calls' = [calls EXCEPT ![p].remove = "ok"]
               /\ UNCHANGED result
            \/ /\ containers' = [containers EXCEPT ![container[p]] = Leaked]
               /\ calls' = [calls EXCEPT ![p].remove = "APIError"]
               /\ result' = [result EXCEPT ![p] = Raised(run_except(Exc("APIError")))]
    /\ pc' = [pc EXCEPT ![p] = AfterCall(p)]
    /\ UNCHANGED <<callVars, chartVars, req, resp, nextId, session_volume, localVars, volumes, histVars>>

\* The finally block: container.remove(force=True) when a handle was obtained;
\* a failure of the removal is logged and swallowed, and the container stays.
\* Then the function returns or raises what was pending.
Finally(p) ==
    /\ pc[p] = "finally"
    /\ IF container[p] = 0
       THEN UNCHANGED <<containers, calls>>
       ELSE \/ /\ containers' = [containers EXCEPT ![container[p]] = NoContainer]
               /\ calls' = [calls EXCEPT ![p].remove = "ok"]
            \/ /\ containers' = [containers EXCEPT ![container[p]] = Leaked]
               /\ calls' = [calls EXCEPT ![p].remove = "APIError"]
    /\ pc' = [pc EXCEPT ![p] = AfterCall(p)]
    /\ UNCHANGED <<callVars, chartVars, req, resp, result, nextId, session_volume, localVars, volumes, histVars>>

\* run_in_container naming every container alike.
CallReusingName(p, s, cmd, t) ==
    /\ pc[p] = "idle"
    /\ nextId < MaxCalls
    /\ nextId' = nextId + 1
    /\ req' = [req EXCEPT ![p] = [NoReq EXCEPT !.kind = "run", !.session_id = s,
                                              !.command = cmd, !.uuid = 1,
                                              !.temp = t]]
    /\ pc' = [pc EXCEPT ![p] = IF s = NoSession THEN "launch" ELSE "vol_get"]
    /\ UNCHANGED <<callVars, chartVars, session_volume, result, resp, calls, localVars, engineVars, histVars>>

\* run_in_container(command, session_id=s, temp_volumes=t) up to its first
\* engine operation: the container name is drawn with uuid4, a name no
\* earlier call was given; then comes the session volume when session_id is
\* set.
Call(p, s, cmd, t) ==
    /\ pc[p] = "idle"
    /\ nextId < MaxCalls
    /\ nextId' = nextId + 1
    /\ req' = [req EXCEPT ![p] = [NoReq EXCEPT !.kind = "run", !.session_id = s,
                                              !.command = cmd, !.uuid = nextId + 1,
                                              !.temp = t]]
    /\ pc' = [pc EXCEPT ![p] = IF s = NoSession THEN "launch" ELSE "vol_get"]
    /\ UNCHANGED <<callVars, chartVars, session_volume, result, resp, calls, localVars, engineVars, histVars>>

\* A direct call of run_in_container while no other request is in progress.
StartRun(p) ==
    /\ Alone(p)
    /\ \E s \in SessionIds \cup {NoSession}, cmd \in RunCmds, t \in TempBinds : Call(p, s, cmd, t)

\* A call of run_in_container made while others are in progress, as calls of
\* several worker processes on one engine are.
StartConcurrent(p) ==
    \E s \in SessionIds \cup {NoSession}, cmd \in WriteCmds \cup CatCmds : Call(p, s, cmd, NoBind)

\* ---------------------------------------------------------- the shell endpoint

EmptyCommand == <<"Shell", "command", "cannot", "be", "empty">>

\* execute_shell_command up to its call of run_in_container: the empty command
\* is refused with 422; the payload model keeps `command` alone, so a body
\* with or without session_id is accepted alike, and the call passes neither
\* a session nor a volume.
StartShell(p) ==
    /\ pc[p] = "idle"
    /\ Alone(p)
    /\ \E s \in SessionIds \cup {NoSession}, cmd \in RunCmds \cup {EmptyCmd} :
         IF cmd = EmptyCmd
         THEN /\ req' = [req EXCEPT ![p] = [NoReq EXCEPT !.kind = "shell", !.session_id = s,
                                                        !.command = cmd]]
              /\ resp' = [resp EXCEPT ![p] = ErrorResponse(HTTPException(HTTP_422, EmptyCommand))]
              /\ pc' = [pc EXCEPT ![p] = "done"]
              /\ UNCHANGED nextId
         ELSE /\ nextId < MaxCalls
              /\ nextId' = nextId + 1
              /\ req' = [req EXCEPT ![p] = [NoReq EXCEPT !.kind = "shell", !.session_id = s,
                                                        !.command = cmd, !.uuid = nextId + 1]]
              /\ pc' = [pc EXCEPT ![p] = "launch"]
              /\ UNCHANGED resp
    /\ UNCHANGED <<callVars, chartVars, session_volume, result, calls, localVars, engineVars, histVars>>

\* execute_shell_command after run_in_container: the triple becomes the 200
\* response, an HTTPException is re-raised as it is.
ShellResponse(r) ==
    IF r.how = "return"
    THEN [status |-> HTTP_200, detail |-> <<>>, exit_code |-> r.exit_code,
          stdout |-> r.stdout, stderr |-> r.stderr]
    ELSE ErrorResponse(r.exc)

ShellRespond(p) ==
    /\ pc[p] = "returned"
    /\ req[p].kind = "shell"
    /\ resp' = [resp EXCEPT ![p] = ShellResponse(result[p])]
    /\ pc' = [pc EXCEPT ![p] = "done"]
    /\ lastWrite' = IF /\ req[p].command.op = "write"
                       /\ req[p].session_id # NoSession
                       /\ ShellResponse(result[p]).status = HTTP_200
                       /\ ShellResponse(result[p]).exit_code = 0
                    THEN [lastWrite EXCEPT ![get_session_volume_name(req[p].session_id)] =
                            req[p].command.arg]
                    ELSE lastWrite
    /\ UNCHANGED <<callVars, chartVars, req, result, calls, nextId, session_volume, localVars, engineVars, expected>>

\* --------------------------------------------------------- the script endpoint

EmptyCode == <<"Python", "code", "cannot", "be", "empty">>
ScriptWriteFailed == <<"Failed", "to", "write", "script", "file">>

\* The script endpoint, phase 1: empty code is refused with 422; otherwise
\* run_in_container writes script.py in the session's volume.
StartScript(p) ==
    /\ pc[p] = "idle"
    /\ Alone(p)
    /\ \E s \in SessionIds, code \in RunCmds \cup {EmptyCmd} :
         IF code = EmptyCmd
         THEN /\ req' = [req EXCEPT ![p] = [NoReq EXCEPT !.kind = "script", !.session_id = s,
                                                        !.command = code]]
              /\ resp' = [resp EXCEPT ![p] = ErrorResponse(HTTPException(HTTP_422, EmptyCode))]
              /\ pc' = [pc EXCEPT ![p] = "done"]
              /\ UNCHANGED nextId
         ELSE /\ nextId + 2 <= MaxCalls
              /\ nextId' = nextId + 1
              /\ req' = [req EXCEPT ![p] = [NoReq EXCEPT !.kind = "script", !.session_id = s,
                                                        !.command = code, !.uuid = nextId + 1,
                                                        !.phase = 1]]
              /\ pc' = [pc EXCEPT ![p] = "vol_get"]
              /\ UNCHANGED resp
    /\ UNCHANGED <<callVars, chartVars, session_volume, result, calls, localVars, engineVars, histVars>>

\* The script endpoint between its phases: an error of phase 1 is the
\* response, a nonzero exit of the write is a server error; otherwise phase 2
\* calls run_in_container again, on script.py in the same session.
ScriptPhase2(p) ==
    /\ pc[p] = "returned"
    /\ req[p].kind = "script"
    /\ req[p].phase = 1
    /\ IF result[p].how = "raise" \/ result[p].exit_code # 0
       THEN /\ resp' = [resp EXCEPT ![p] =
                          IF result[p].how = "raise" THEN ErrorResponse(result[p].exc)
                          ELSE ErrorResponse(HTTPException(HTTP_500, ScriptWriteFailed))]
            /\ pc' = [pc EXCEPT ![p] = "done"]
            /\ UNCHANGED <<req, nextId, result, calls, session_volume, localVars>>
       ELSE /\ nextId' = nextId + 1
            /\ req' = [req EXCEPT ![p].uuid = nextId + 1, ![p].phase = 2]
            /\ pc' = [pc EXCEPT ![p] = "vol_get"]
            /\ container' = [container EXCEPT ![p] = 0]
            /\ exit_code' = [exit_code EXCEPT ![p] = UnknownExit]
            /\ stdout_str' = [stdout_str EXCEPT ![p] = ""]
            /\ stderr_str' = [stderr_str EXCEPT ![p] = ""]
            /\ session_volume' = [session_volume EXCEPT ![p] = NoVolume]
            /\ result' = [result EXCEPT ![p] = NoResult]
            /\ calls' = [calls EXCEPT ![p] = NoCalls]
            /\ UNCHANGED resp
    /\ UNCHANGED <<callVars, chartVars, engineVars, histVars>>

\* The script endpoint after phase 2: the triple is returned verbatim.
ScriptResponse(r) ==
    IF r.how = "return"
    THEN [status |-> HTTP_200, detail |-> <<>>, exit_code |-> r.exit_code,
          stdout |-> r.stdout, stderr |-> r.stderr]
    ELSE ErrorResponse(r.exc)

ScriptRespond(p) ==
    /\ pc[p] = "returned"
    /\ req[p].kind = "script"
    /\ req[p].phase = 2
    /\ resp' = [resp EXCEPT ![p] = ScriptResponse(result[p])]
    /\ pc' = [pc EXCEPT ![p] = "done"]
    /\ UNCHANGED <<callVars, chartVars, req, result, calls, nextId, session_volume, localVars, engineVars, histVars>>

\* ---------------------------------------------------------- the chart endpoint

ChartWriteFailed == <<"Server", "error", "Failed", "to", "write", "script", "file">>
ChartUnexpected == <<"An", "unexpected", "server", "error", "occurred">>
ImageResponse == [NoResponse EXCEPT !.status = HTTP_200, !.detail = <<"image/png">>]

\* The detail of the 400 a failed script gets: the exit code and the last
\* lines of stderr.
ChartFailedDetail(n, err) ==
    <<"Python script execution failed", "Exit Code:", ToString(n), "Stderr (Last 10 lines):">>
        \o LastLines(splitlines(err), TailLines)

\* The detail of the 500 a script without output file gets.
ChartNoOutputDetail(out, err) ==
    <<"Script executed successfully", "Exit Code:", "0",
      "failed to produce the expected output file", "Stdout (Last 10 lines):">>
        \o LastLines(splitlines(out), TailLines)
        \o <<"Stderr (Last 10 lines):">>
        \o LastLines(splitlines(err), TailLines)

\* execute_python_chart up to its call of run_in_container: mkdtemp, the
\* script written into the directory, the directory bound read-write at the
\* working directory. A failed write adds the cleanup task and raises 500
\* (the handler of HTTPException adds the task once more); any other error
\* of the write ends in `except Exception`.
StartChart(p) ==
    /\ pc[p] = "idle"
    /\ Alone(p)
    /\ \E cmd \in ChartCmds, w \in {"ok", "IOError", "UnicodeEncodeError"} :
         /\ temp_dir' = [temp_dir EXCEPT ![p] = [exists |-> TRUE, script |-> w = "ok",
                                                 output |-> FALSE]]
         /\ IF w = "ok"
            THEN /\ nextId < MaxCalls
                 /\ nextId' = nextId + 1
                 /\ req' = [req EXCEPT ![p] = [NoReq EXCEPT !.kind = "chart", !.command = cmd,
                                                           !.uuid = nextId + 1,
                                                           !.temp = WORKSPACE_DIR_INSIDE_CONTAINER]]
                 /\ pc' = [pc EXCEPT ![p] = "launch"]
                 /\ UNCHANGED <<resp, background_tasks>>
            ELSE /\ req' = [req EXCEPT ![p] = [NoReq EXCEPT !.kind = "chart", !.command = cmd]]
                 /\ resp' = [resp EXCEPT ![p] =
                               ErrorResponse(HTTPException(HTTP_500,
                                   IF w = "IOError" THEN ChartWriteFailed ELSE ChartUnexpected))]
                 /\ background_tasks' = [background_tasks EXCEPT ![p].added =
                                            IF w = "IOError" THEN 2 ELSE 1]
                 /\ pc' = [pc EXCEPT ![p] = "respond"]
                 /\ UNCHANGED nextId
    /\ UNCHANGED <<callVars, session_volume, result, calls, localVars, engineVars, histVars>>

\* execute_python_chart after run_in_container: what it answers, how many
\* cleanup tasks it has added by then, and whether it returned the response
\* (which then carries the tasks) or raised it.
chart_outcome(r, has_output) ==
    IF r.how = "raise"
    THEN [resp |-> ErrorResponse(r.exc), added |-> 1, attached |-> FALSE]
    ELSE IF r.exit_code # 0
    THEN [resp |-> ErrorResponse(HTTPException(HTTP_400, ChartFailedDetail(r.exit_code, r.stderr))),
          added |-> 2, attached |-> FALSE]
    ELSE IF ~has_output
    THEN [resp |-> ErrorResponse(HTTPException(HTTP_500, ChartNoOutputDetail(r.stdout, r.stderr))),
          added |-> 2, attached |-> FALSE]
    ELSE [resp |-> ImageResponse, added |-> 1, attached |-> TRUE]

ChartRespond(p) ==
    /\ pc[p] = "returned"
    /\ req[p].kind = "chart"
    /\ LET o == chart_outcome(result[p], temp_dir[p].output)
       IN /\ resp' = [resp EXCEPT ![p] = o.resp]
          /\ background_tasks' = [background_tasks EXCEPT ![p] =
                                    [added |-> o.added, attached |-> o.attached]]
    /\ pc' = [pc EXCEPT ![p] = "respond"]
    /\ UNCHANGED <<callVars, req, result, calls, nextId, session_volume, localVars, engineVars,
                   histVars, temp_dir>>

\* The response goes out: the image file is read from the directory, or the
\* exception handler's error body is sent.
ChartSend(p) ==
    /\ pc[p] = "respond"
    /\ req[p].kind = "chart"
    /\ pc' = [pc EXCEPT ![p] = "sent"]
    /\ UNCHANGED <<callVars, req, resp, result, calls, nextId, session_volume, localVars, engineVars,
                   histVars, chartVars>>

\* cleanup_temp_dir: shutil.rmtree when the directory is there.
cleanup_temp_dir(d) == IF d.exists THEN NoTempDir ELSE d

\* After the response: the tasks of a returned response run, each calling
\* cleanup_temp_dir; the tasks added before an exception was raised belong
\* to no response and never run.
ChartBackground(p) ==
    /\ pc[p] = "sent"
    /\ req[p].kind = "chart"
    /\ temp_dir' = IF background_tasks[p].attached /\ background_tasks[p].added > 0
                   THEN [temp_dir EXCEPT ![p] = cleanup_temp_dir(temp_dir[p])]
                   ELSE temp_dir
    /\ pc' = [pc EXCEPT ![p] = "done"]
    /\ UNCHANGED <<callVars, req, resp, result, calls, nextId, session_volume, localVars, engineVars,
                   histVars, background_tasks>>

\* ------------------------------------------------------------- the file API

CannotDeleteRoot == <<"Cannot", "delete", "the", "workspace", "root", "directory">>

\* delete_path, after validate_and_resolve_path returned: a resolved path equal
\* to the workspace root is refused before any container is asked for.
delete_root_check(v) ==
    IF v.exc = NoExc /\ v.path = base_workspace
    THEN [exc |-> HTTPException(HTTP_400, CannotDeleteRoot), path |-> v.path]
    ELSE v

\* The file handlers with the session volume ensured ahead of the validation.
FileOpVolumeFirst(p) ==
    /\ pc[p] = "idle"
    /\ Alone(p)
    /\ \E k \in FileKinds, s \in SessionIds, path \in UserPaths :
         LET v == IF k = "delete"
                  THEN delete_root_check(validate_and_resolve_path(s, path))
                  ELSE validate_and_resolve_path(s, path)
         IN /\ volumes' = [volumes EXCEPT ![get_session_volume_name(s)].exists = TRUE]
            /\ calls' = [calls EXCEPT ![p].get = "NotFound", ![p].create = "created"]
            /\ IF v.exc # NoExc
               THEN /\ req' = [req EXCEPT ![p] = [NoReq EXCEPT !.kind = k, !.session_id = s,
                                                              !.path = path]]
                    /\ resp' = [resp EXCEPT ![p] = ErrorResponse(v.exc)]
                    /\ pc' = [pc EXCEPT ![p] = "done"]
                    /\ UNCHANGED nextId
               ELSE /\ nextId < MaxCalls
                    /\ nextId' = nextId + 1
                    /\ req' = [req EXCEPT ![p] = [NoReq EXCEPT !.kind = k, !.session_id = s,
                                                              !.path = path, !.uuid = nextId + 1]]
                    /\ pc' = [pc EXCEPT ![p] = "launch"]
                    /\ UNCHANGED resp
    /\ UNCHANGED <<callVars, chartVars, session_volume, result, localVars, containers, histVars>>

\* list_directory, read_file, write_file, delete_path, create_directory: each
\* starts with validate_and_resolve_path, outside its own try, so the
\* HTTPException of a refused path is the response. An accepted path goes on
\* to run_in_container in the session.
FileOp(p) ==
    /\ pc[p] = "idle"
    /\ Alone(p)
    /\ \E k \in FileKinds, s \in SessionIds, path \in UserPaths :
         LET v == IF k = "delete"
                  THEN delete_root_check(validate_and_resolve_path(s, path))
                  ELSE validate_and_resolve_path(s, path)
         IN IF v.exc # NoExc
            THEN /\ req' = [req EXCEPT ![p] = [NoReq EXCEPT !.kind = k, !.session_id = s,
                                                           !.path = path]]
                 /\ resp' = [resp EXCEPT ![p] = ErrorResponse(v.exc)]
                 /\ pc' = [pc EXCEPT ![p] = "done"]
                 /\ UNCHANGED nextId
            ELSE /\ nextId < MaxCalls
                 /\ nextId' = nextId + 1
                 /\ req' = [req EXCEPT ![p] = [NoReq EXCEPT !.kind = k, !.session_id = s,
                                                           !.path = path, !.uuid = nextId + 1]]
                 /\ pc' = [pc EXCEPT ![p] = "vol_get"]
                 /\ UNCHANGED resp
    /\ UNCHANGED <<callVars, chartVars, session_volume, result, calls, localVars, engineVars, histVars>>

\* The caller's slot is free again once its request is over.
Finish(p) ==
    /\ pc[p] = "done"
    /\ pc' = [pc EXCEPT ![p] = "idle"]
    /\ req' = [req EXCEPT ![p] = NoReq]
    /\ container' = [container EXCEPT ![p] = 0]
    /\ exit_code' = [exit_code EXCEPT ![p] = UnknownExit]
    /\ stdout_str' = [stdout_str EXCEPT ![p] = ""]
    /\ stderr_str' = [stderr_str EXCEPT ![p] = ""]
    /\ session_volume' = [session_volume EXCEPT ![p] = NoVolume]
    /\ result' = [result EXCEPT ![p] = NoResult]
    /\ resp' = [resp EXCEPT ![p] = NoResponse]
    /\ calls' = [calls EXCEPT ![p] = NoCalls]
    /\ expected' = [expected EXCEPT ![p] = None]
    /\ temp_dir' = [temp_dir EXCEPT ![p] = NoTempDir]
    /\ background_tasks' = [background_tasks EXCEPT ![p] = NoTasks]
    /\ UNCHANGED <<callVars, nextId, engineVars, lastWrite>>

\* Requests that launch containers, one at a time.
Next ==
    \/ \E p \in Procs : StartRun(p)
    \/ \E p \in Procs : StartShell(p)
    \/ \E p \in Procs : VolGet(p)
    \/ \E p \in Procs : VolCreate(p)
    \/ \E p \in Procs : Launch(p)
    \/ \E c \in Ids : ContainerExit(c)
    \/ \E p \in Procs : Wait(p)
    \/ \E p \in Procs : Logs(p)
    \/ \E p \in Procs : Finally(p)
    \/ \E p \in Procs : ShellRespond(p)
    \/ \E p \in Procs : StartScript(p)
    \/ \E p \in Procs : ScriptPhase2(p)
    \/ \E p \in Procs : ScriptRespond(p)
    \/ \E p \in Procs : Finish(p)

Spec == Init /\ [][Next]_vars

\* Requests of the chart endpoint, one at a time.
NextChart ==
    \/ \E p \in Procs : StartChart(p)
    \/ \E p \in Procs : Launch(p)
    \/ \E c \in Ids : ContainerExit(c)
    \/ \E p \in Procs : Wait(p)
    \/ \E p \in Procs : Logs(p)
    \/ \E p \in Procs : Finally(p)
    \/ \E p \in Procs : ChartRespond(p)
    \/ \E p \in Procs : ChartSend(p)
    \/ \E p \in Procs : ChartBackground(p)
    \/ \E p \in Procs : Finish(p)

SpecChart == Init /\ [][NextChart]_vars

\* Interleaved calls of get_or_create_session_volume.
NextVolumes ==
    \/ \E p \in Procs : StartEnsure(p)
    \/ \E p \in Procs : VolGet(p)
    \/ \E p \in Procs : VolCreate(p)
    \/ \E p \in Procs : Finish(p)

SpecVolumes == Init /\ [][NextVolumes]_vars

\* Requests of the file API.
NextFiles ==
    \/ \E p \in Procs : FileOp(p)
    \/ \E p \in Procs : Finish(p)

SpecFiles == Init /\ [][NextFiles]_vars

\* Calls of run_in_container in any interleaving.
NextConcurrent ==
    \/ \E p \in Procs : StartConcurrent(p)
    \/ \E p \in Procs : VolGet(p)
    \/ \E p \in Procs : VolCreate(p)
    \/ \E p \in Procs : Launch(p)
    \/ \E c \in Ids : ContainerExit(c)
    \/ \E p \in Procs : Wait(p)
    \/ \E p \in Procs : Logs(p)
    \/ \E p \in Procs : Finally(p)
    \/ \E p \in Procs : Finish(p)

SpecConcurrent == Init /\ [][NextConcurrent]_vars

\* ------------------------------------------- functions applied on their own

\* The session ids get_session_volume_name is applied to: short ones, and
\* ones about as long as the sanitised form may get.
LongIds == {[i \in 1..n |-> "x"] \o t : n \in {0, SanitizedLimit - 1},
                                        t \in SeqsUpTo({"a", "Z", "_", "/", " "}, MaxTail)}
NameCalls == {[fn |-> "get_session_volume_name", args |-> <<a, b>>] : a, b \in LongIds}

\* get_session_volume_name(a) and get_session_volume_name(b)
GetNames ==
    /\ call.fn = "get_session_volume_name"
    /\ value = NoValue
    /\ value' = [returned |-> TRUE,
                 names |-> <<get_session_volume_name(call.args[1]),
                             get_session_volume_name(call.args[2])>>]
    /\ UNCHANGED <<call, programVars>>

\* A dict of environment variables is a function from names to values; a
\* value is a path, and PATH a list of paths. None and {} are both <<>>.
NoEnvironment == <<>>
SystemPath == << <<"usr", "local", "sbin">>, <<"usr", "local", "bin">>, <<"usr", "sbin">>,
                 <<"usr", "bin">>, <<"sbin">>, <<"bin">> >>
Environments == {NoEnvironment,
                 [FOO |-> <<"1">>],
                 [PATH |-> << <<"opt", "bin">> >>],
                 [PYTHONUSERBASE |-> <<"opt">>, FOO |-> <<"1">>]}

\* dict.update
Update(d, e) == [k \in DOMAIN d \cup DOMAIN e |-> IF k \in DOMAIN e THEN e[k] ELSE d[k]]

\* run_in_container, "Prepare Environment Variables": with a session, the
\* user base and the PATH that starts with its bin directory, both under
\* WORKSPACE_DIR_INSIDE_CONTAINER; then the caller's variables on top.
final_environment(session_id, environment) ==
    LET user_base == WORKSPACE_DIR_INSIDE_CONTAINER \o <<".local">>
        defaults == IF session_id # NoSession
                    THEN [PYTHONUSERBASE |-> user_base,
                          PATH |-> <<user_base \o <<"bin">>>> \o SystemPath]
                    ELSE NoEnvironment
    IN IF environment # NoEnvironment THEN Update(defaults, environment) ELSE defaults

EnvironmentCalls ==
    {[fn |-> "final_environment",
      args |-> [session_id |-> s, working_dir |-> w, environment |-> e]] :
        s \in SessionIds \cup {NoSession},
        w \in {WORKSPACE_DIR_INSIDE_CONTAINER, <<"data">>},
        e \in Environments}

\* run_in_container(command, session_id, working_dir=w, environment=e) up to
\* the environment it hands to containers.run.
PrepareEnvironment ==
    /\ call.fn = "final_environment"
    /\ value = NoValue
    /\ value' = [returned |-> TRUE,
                 environment |-> final_environment(call.args.session_id,
                                                   call.args.environment)]
    /\ UNCHANGED <<call, programVars>>

\* ----------------------------------------- the file handlers past validation

\* What the handlers look for on stderr, and texts that hold two of them:
\* the message names the path, and a path may spell any of the phrases.
IsADirectory == "Is a directory"
PermissionDenied == "Permission denied"
FileExists == "File exists"
OtherError == "Input/output error"
DeniedNotFound == "cat: '/workspace/Permission denied': No such file or directory"
DirectoryNotFound == "cat: '/workspace/Is a directory': No such file or directory"
DeniedIsDirectory == "bash: line 1: /workspace/Permission denied: Is a directory"
ExistsDenied == "mkdir: cannot create directory '/workspace/File exists': Permission denied"
StderrTexts == {"", NoSuchFile, IsADirectory, PermissionDenied, FileExists, OtherError,
                DeniedNotFound, DirectoryNotFound, DeniedIsDirectory, ExistsDenied}

\* phrase in text
Mentions(text, phrase) ==
    phrase \in CASE text = DeniedNotFound -> {PermissionDenied, NoSuchFile}
                 [] text = DirectoryNotFound -> {IsADirectory, NoSuchFile}
                 [] text = DeniedIsDirectory -> {PermissionDenied, IsADirectory}
                 [] text = ExistsDenied -> {FileExists, PermissionDenied}
                 [] OTHER -> {text}

\* The paths validate_and_resolve_path is written to return: the workspace
\* root and a path below it.
ResolvedPaths == {base_workspace,
                  [abs |-> TRUE, parts |-> WORKSPACE_DIR_INSIDE_CONTAINER \o <<"d">>]}

\* resolved_path.relative_to(PurePosixPath(WORKSPACE_DIR_INSIDE_CONTAINER))
relative_to(path, base) ==
    [abs |-> FALSE, parts |-> SubSeq(path.parts, Len(base.parts) + 1, Len(path.parts))]

\* The HTTPExceptions run_in_container raises to a file handler: a failure of
\* the session volume, of containers.run, the timeout of the wait and a lost
\* connection while the logs are read.
RunnerErrors ==
    {HTTPException(HTTP_500, FailedToGet), HTTPException(HTTP_500, FailedToCreate)}
        \cup {run_except(Exc(t)) : t \in {"ImageNotFound", "APIError"}}
        \cup {run_except(wait_except(Exc("ReadTimeout")))}
        \cup {run_except(logs_except(Exc("ConnectionError")))}

\* How a call of run_in_container may end for a handler whose command
\* writes one of `outs` to stdout when it succeeds.
RunnerResults(outs, none) ==
    {Returned(0, out, "") : out \in outs}
        \cup {Returned(c, none, err) : c \in {1, UnknownExit}, err \in StderrTexts}
        \cup {Raised(e) : e \in RunnerErrors}

\* The response of a file handler: status, detail, and the body of a success.
FileResponse(code, body) == [status |-> code, detail |-> <<>>, body |-> body]
FileError(code, words) == [status |-> code, detail |-> words, body |-> <<>>]
Reraised(e) == FileError(e.status, e.detail)

\* resolved_path.parent: the path without its last part; a path with no part
\* left, "/", is its own parent.
parent(path) ==
    [path EXCEPT !.parts = IF Len(@) = 0 THEN @ ELSE SubSeq(@, 1, Len(@) - 1)]

\* The shell commands list_directory (cd ... && ls), read_file (cat --),
\* delete_path (rm -rf --, after the root check) and create_directory
\* (mkdir -p --) hand to run_in_container, each with the one path it
\* interpolates, str(resolved_path).
file_commands(fn, path) ==
    CASE fn = "list_directory" -> <<[op |-> "ls", path |-> path]>>
      [] fn = "read_file" -> <<[op |-> "cat", path |-> path]>>
      [] fn = "delete_path" -> IF delete_root_check([exc |-> NoExc, path |-> path]).exc # NoExc
                               THEN <<>>
                               ELSE <<[op |-> "rm", path |-> path]>>
      [] fn = "create_directory" -> <<[op |-> "mkdir", path |-> path]>>

\* A line of a listing is its tokens, a trailing marker being a token of its
\* own: `sub/` is <<"sub", "/">>.
Lines == {<<>>, <<"a">>, <<"a", "/">>, <<"a", "@">>, <<"a", "*">>, <<"/">>,
          <<".">>, <<".", "/">>, <<"..">>, <<"..", "/">>}
Listings == SeqsUpTo(Lines, MaxLines)

\* The members of a directory, in the order ls prints them.
TestDirectory == <<[name |-> "file1.txt", type |-> "file"],
                   [name |-> "file2.log", type |-> "file"],
                   [name |-> "sub", type |-> "directory"]>>
Directories == {<<>>, <<[name |-> "root_file.txt", type |-> "file"]>>, TestDirectory}

\* `ls -pA --full-time` on a directory: --full-time is -l with
\* --time-style=full-iso, so the output is the long format, a `total` line
\* first; -p appends the slash to the name of a directory.
ls_pA_full_time(members) ==
    << <<"total", ToString(4 * Len(members))>> >>
        \o [i \in 1..Len(members) |->
              <<IF members[i].type = "directory" THEN "drwxr-xr-x" ELSE "-rw-r--r--",
                "1", "root", "root", "4096", "2025-01-01", "00:00:00.000000000", "+0000",
                members[i].name>>
                  \o (IF members[i].type = "directory" THEN <<"/">> ELSE <<>>)]

\* The loop with every marker of `ls -F` stripped and '@' read as a link.
list_entry_marked(line) ==
    IF line # <<>> /\ line[Len(line)] \in {"/", "@", "*"}
    THEN [name |-> SubSeq(line, 1, Len(line) - 1),
          type |-> CASE line[Len(line)] = "/" -> "directory"
                     [] line[Len(line)] = "@" -> "link"
                     [] OTHER -> "file"]
    ELSE [name |-> line, type |-> "file"]

\* list_directory, the loop over the lines of stdout: an empty line is
\* skipped; a line that ends with '/' is a directory named by the rest of
\* the line, any other line a file named by the whole line; '.' and '..'
\* are skipped.
list_entry(line) ==
    IF line # <<>> /\ line[Len(line)] = "/"
    THEN [name |-> SubSeq(line, 1, Len(line) - 1), type |-> "directory"]
    ELSE [name |-> line, type |-> "file"]

list_entries(lines) ==
    LET kept == SelectSeq(lines, LAMBDA line :
                    line # <<>> /\ list_entry(line).name \notin {<<".">>, <<"..">>})
    IN [i \in 1..Len(kept) |-> list_entry(kept[i])]

\* list_directory after validate_and_resolve_path returned `path` and
\* run_in_container ended as `r`.
list_directory_run(path, r) ==
    IF r.how = "raise" THEN Reraised(r.exc)
    ELSE IF r.exit_code # 0
    THEN IF Mentions(r.stderr, NoSuchFile) THEN FileError(HTTP_404, <<"Path", "not", "found">>)
         ELSE IF Mentions(r.stderr, PermissionDenied)
         THEN FileError(HTTP_403, <<"Permission", "denied", "for", "path">>)
         ELSE FileError(HTTP_500, <<"Failed", "to", "list", "directory">>)
    ELSE FileResponse(HTTP_200, [path |-> relative_to(path, base_workspace),
                                 entries |-> list_entries(r.stdout)])

ListCalls ==
    {[fn |-> "list_directory", args |-> [path |-> path, result |-> r]] :
        path \in ResolvedPaths,
        r \in RunnerResults(Listings \cup {ls_pA_full_time(d) : d \in Directories}, <<>>)}

ListDirectory ==
    /\ call.fn = "list_directory"
    /\ value = NoValue
    /\ value' = [returned |-> TRUE,
                 response |-> list_directory_run(call.args.path, call.args.result),
                 commands |-> file_commands(call.fn, call.args.path)]
    /\ UNCHANGED <<call, programVars>>

\* read_file with "Permission denied" looked for first.
read_file_denied_first(path, r) ==
    IF r.how = "raise" THEN Reraised(r.exc)
    ELSE IF r.exit_code # 0
    THEN IF Mentions(r.stderr, PermissionDenied)
         THEN FileError(HTTP_403, <<"Permission", "denied", "for", "file">>)
         ELSE IF Mentions(r.stderr, NoSuchFile) THEN FileError(HTTP_404, <<"File", "not", "found">>)
         ELSE IF Mentions(r.stderr, IsADirectory) THEN FileError(HTTP_400, <<"Path", "is", "a", "directory", "not", "a", "file">>)
         ELSE FileError(HTTP_500, <<"Failed", "to", "read", "file">>)
    ELSE FileResponse(HTTP_200, [path |-> relative_to(path, base_workspace),
                                 content |-> r.stdout])

\* read_file after validate_and_resolve_path returned `path` and
\* run_in_container ended as `r`.
read_file_run(path, r) ==
    IF r.how = "raise" THEN Reraised(r.exc)
    ELSE IF r.exit_code # 0
    THEN IF Mentions(r.stderr, NoSuchFile) THEN FileError(HTTP_404, <<"File", "not", "found">>)
         ELSE IF Mentions(r.stderr, IsADirectory) THEN FileError(HTTP_400, <<"Path", "is", "a", "directory", "not", "a", "file">>)
         ELSE IF Mentions(r.stderr, PermissionDenied)
         THEN FileError(HTTP_403, <<"Permission", "denied", "for", "file">>)
         ELSE FileError(HTTP_500, <<"Failed", "to", "read", "file">>)
    ELSE FileResponse(HTTP_200, [path |-> relative_to(path, base_workspace),
                                 content |-> r.stdout])

ReadCalls ==
    {[fn |-> "read_file", args |-> [path |-> path, result |-> r]] :
        path \in ResolvedPaths, r \in RunnerResults(Contents \cup {""}, "")}

ReadFile ==
    /\ call.fn = "read_file"
    /\ value = NoValue
    /\ value' = [returned |-> TRUE,
                 response |-> read_file_run(call.args.path, call.args.result),
                 commands |-> file_commands(call.fn, call.args.path)]
    /\ UNCHANGED <<call, programVars>>

\* write_file with the stderr of step 1 read as that of step 2 is.
write_file_alike(r_mkdir, r_write) ==
    LET failed == IF r_mkdir.how = "return" /\ r_mkdir.exit_code = 0 THEN r_write ELSE r_mkdir
    IN IF failed.how = "raise" THEN Reraised(failed.exc)
       ELSE IF failed.exit_code # 0
       THEN IF Mentions(failed.stderr, PermissionDenied)
            THEN FileError(HTTP_403, <<"Permission", "denied", "writing", "to", "file">>)
            ELSE IF Mentions(failed.stderr, IsADirectory)
            THEN FileError(HTTP_400, <<"Path", "is", "a", "directory", "cannot", "write", "file">>)
            ELSE FileError(HTTP_500, <<"Failed", "to", "write", "file">>)
       ELSE FileResponse(HTTP_204, <<>>)

\* write_file after validate_and_resolve_path returned: step 1, the mkdir of
\* the parent, ended as `r_mkdir`; step 2, the write, runs when step 1
\* exited 0 and ended as `r_write`.
write_file_run(r_mkdir, r_write) ==
    IF r_mkdir.how = "raise" THEN Reraised(r_mkdir.exc)
    ELSE IF r_mkdir.exit_code # 0 THEN FileError(HTTP_500, <<"Failed", "to", "create", "parent", "directory">>)
    ELSE IF r_write.how = "raise" THEN Reraised(r_write.exc)
    ELSE IF r_write.exit_code # 0
    THEN IF Mentions(r_write.stderr, PermissionDenied)
         THEN FileError(HTTP_403, <<"Permission", "denied", "writing", "to", "file">>)
         ELSE IF Mentions(r_write.stderr, IsADirectory)
         THEN FileError(HTTP_400, <<"Path", "is", "a", "directory", "cannot", "write", "file">>)
         ELSE FileError(HTTP_500, <<"Failed", "to", "write", "file">>)
    ELSE FileResponse(HTTP_204, <<>>)

\* write_file launching step 2 whatever step 1 did.
write_file_commands_both(path, r_mkdir) ==
    <<[op |-> "mkdir", path |-> parent(path)], [op |-> "printf", path |-> path]>>

\* The commands write_file hands to run_in_container, in their order:
\* `mkdir -p` of resolved_path.parent, then, when that call returned exit
\* code 0, the printf redirected to resolved_path.
write_file_commands(path, r_mkdir) ==
    <<[op |-> "mkdir", path |-> parent(path)]>>
        \o (IF r_mkdir.how = "return" /\ r_mkdir.exit_code = 0
            THEN <<[op |-> "printf", path |-> path]>>
            ELSE <<>>)

\* `mkdir` is how step 1 ends, `write` how step 2 ends if it is launched.
WriteCalls ==
    {[fn |-> "write_file", args |-> [path |-> path, mkdir |-> r1, write |-> r2]] :
        path \in ResolvedPaths, r1 \in RunnerResults({""}, ""), r2 \in RunnerResults({""}, "")}

WriteFile ==
    /\ call.fn = "write_file"
    /\ value = NoValue
    /\ value' = [returned |-> TRUE,
                 response |-> write_file_run(call.args.mkdir, call.args.write),
                 commands |-> write_file_commands(call.args.path, call.args.mkdir)]
    /\ UNCHANGED <<call, programVars>>

\* delete_path after validate_and_resolve_path returned `path`: the root is
\* refused; otherwise run_in_container ended as `r`, and a nonzero exit
\* without "Permission denied" still counts as success.
delete_path_run(path, r) ==
    IF delete_root_check([exc |-> NoExc, path |-> path]).exc # NoExc
    THEN Reraised(delete_root_check([exc |-> NoExc, path |-> path]).exc)
    ELSE IF r.how = "raise" THEN Reraised(r.exc)
    ELSE IF r.exit_code # 0 /\ Mentions(r.stderr, PermissionDenied)
    THEN FileError(HTTP_403, <<"Permission", "denied", "deleting", "path">>)
    ELSE FileResponse(HTTP_204, <<>>)

DeleteCalls ==
    {[fn |-> "delete_path", args |-> [path |-> path, result |-> r]] :
        path \in ResolvedPaths, r \in RunnerResults({""}, "")}

DeletePath ==
    /\ call.fn = "delete_path"
    /\ value = NoValue
    /\ value' = [returned |-> TRUE,
                 response |-> delete_path_run(call.args.path, call.args.result),
                 commands |-> file_commands(call.fn, call.args.path)]
    /\ UNCHANGED <<call, programVars>>

\* create_directory after validate_and_resolve_path returned `path` and
\* run_in_container ended as `r`.
create_directory_run(path, r) ==
    IF r.how = "raise" THEN Reraised(r.exc)
    ELSE IF r.exit_code # 0
    THEN IF Mentions(r.stderr, PermissionDenied)
         THEN FileError(HTTP_403, <<"Permission", "denied", "creating", "directory">>)
         ELSE IF Mentions(r.stderr, FileExists) THEN FileError(HTTP_409, <<"Path", "already", "exists", "and", "is", "not", "a", "directory">>)
         ELSE FileError(HTTP_500, <<"Failed", "to", "create", "directory">>)
    ELSE FileResponse(HTTP_201, [message |-> <<"Directory", "created", "successfully">>,
                                 path |-> relative_to(path, base_workspace)])

MkdirCalls ==
    {[fn |-> "create_directory", args |-> [path |-> path, result |-> r]] :
        path \in ResolvedPaths, r \in RunnerResults({""}, "")}

CreateDirectory ==
    /\ call.fn = "create_directory"
    /\ value = NoValue
    /\ value' = [returned |-> TRUE,
                 response |-> create_directory_run(call.args.path, call.args.result),
                 commands |-> file_commands(call.fn, call.args.path)]
    /\ UNCHANGED <<call, programVars>>

\* One application of a function, or of a handler past its validation, to
\* arguments drawn from the sets above.
InitCalls ==
    /\ Quiet
    /\ value = NoValue
    /\ \/ call \in NameCalls
       \/ call \in EnvironmentCalls
       \/ call \in ListCalls
       \/ call \in ReadCalls
       \/ call \in WriteCalls
       \/ call \in DeleteCalls
       \/ call \in MkdirCalls

NextCalls ==
    \/ GetNames
    \/ PrepareEnvironment
    \/ ListDirectory
    \/ ReadFile
    \/ WriteFile
    \/ DeletePath
    \/ CreateDirectory

SpecCalls == InitCalls /\ [][NextCalls]_vars

\* ------------------------------------------------------------------ claims

Over(p) == pc[p] \in {"returned", "done"}
RunnerCalled(p) == req[p].kind \in HeavyKinds /\ req[p].uuid # 0
VolumeNameOf(p) == get_session_volume_name(req[p].session_id)

\* C1: once a call of run_in_container has returned or raised, the engine holds
\* no container that the call created.
C1_NoContainerLeft ==
    \A p \in Procs :
        Over(p) /\ RunnerCalled(p) => containers[req[p].uuid].state = "absent"

\* C2: a wait that times out makes run_in_container raise the 408 Timeout
\* error, and the caller of the shell endpoint receives status 408.
C2_TimeoutIs408 ==
    \A p \in Procs :
        Over(p) /\ RunnerCalled(p) /\ calls[p].wait = "ReadTimeout"
            => /\ result[p].how = "raise"
               /\ result[p].exc.status = HTTP_408
               /\ (pc[p] = "done" /\ req[p].kind = "shell" => resp[p].status = HTTP_408)

\* C3: the removal of the container, failing or not, leaves the outcome of
\* run_in_container as it was before the finally block: the same triple is
\* returned or the same error raised.
C3_RemovalKeepsOutcome ==
    [][\A p \in Procs :
         pc[p] = "finally" /\ pc'[p] # "finally" => result'[p] = result[p]]_vars

\* C3 witness: a call returned its triple although the removal failed.
C3_Witness ==
    \E p \in Procs :
        /\ Over(p)
        /\ calls[p].remove = "APIError"
        /\ calls[p].logs = "ok"
        /\ result[p] = Returned(5, "", "")

\* C4: a shell command that reads a file which an earlier shell command of a
\* session with the same volume name wrote gets that content; without such a
\* write, or a file in the volume of that name, the file is not there.
C4_ShellPersistence ==
    \A p \in Procs :
        /\ pc[p] = "done"
        /\ req[p].kind = "shell"
        /\ req[p].session_id # NoSession
        /\ req[p].command.op = "cat"
        /\ calls[p].wait = "exit"
        /\ calls[p].logs = "ok"
        => IF expected[p] # None
           THEN resp[p].exit_code = 0 /\ resp[p].stdout = expected[p]
           ELSE resp[p].exit_code = 0 =>
                    /\ volumes[VolumeNameOf(p)].exists
                    /\ volumes[VolumeNameOf(p)].files[req[p].command.file] = resp[p].stdout

\* The container of a shell command, or of the script of a script request, exited.
ShellExited(p) ==
    /\ pc[p] = "done"
    /\ req[p].kind = "shell" \/ (req[p].kind = "script" /\ req[p].phase = 2)
    /\ calls[p].wait = "exit"

ShellVerbatim(p) ==
    /\ resp[p].status = HTTP_200
    /\ resp[p].exit_code = exit_code[p]
    /\ resp[p].stdout = stdout_str[p]
    /\ resp[p].stderr = stderr_str[p]
    /\ (req[p].command.op = "exit" => resp[p].exit_code = req[p].command.code)
    /\ (req[p].command.op = "write" => resp[p].exit_code = 0)

\* C5: whenever the launched container exits with a status n, the response of
\* the shell or script endpoint is 200 with exit_code n and the captured
\* streams; n is never turned into a 4xx or 5xx response.
C5_ExitIsAlways200 ==
    \A p \in Procs : ShellExited(p) => ShellVerbatim(p)

EnsureOver(p) == pc[p] = "done" /\ req[p].kind = "ensure"

\* C6: interleaved calls of get_or_create_session_volume for one session all
\* return the volume of the session's name, and none fails because another
\* call created the volume first.
C6_EnsureIdempotent ==
    \A p \in Procs :
        EnsureOver(p) =>
            /\ ~(result[p].how = "raise" /\ calls[p].create = "conflict")
            /\ (result[p].how = "return" =>
                    session_volume[p] = VolumeNameOf(p) /\ volumes[VolumeNameOf(p)].exists)

\* C7: after a conflict on volumes.create the lookup is retried and the volume
\* found is returned.
C7_ConflictRetriesLookup ==
    \A p \in Procs :
        EnsureOver(p) /\ calls[p].create = "conflict" =>
            result[p].how = "return" /\ session_volume[p] = VolumeNameOf(p)

\* os.path.normpath on the parts of an absolute path: '..' drops the part
\* before it, and stays at the root.
RECURSIVE Normalize(_, _)
Normalize(parts, acc) ==
    IF parts = <<>> THEN acc
    ELSE IF Head(parts) = ".."
         THEN Normalize(Tail(parts), IF acc = <<>> THEN acc ELSE SubSeq(acc, 1, Len(acc) - 1))
         ELSE Normalize(Tail(parts), Append(acc, Head(parts)))

IsPrefix(a, b) == Len(a) <= Len(b) /\ SubSeq(b, 1, Len(a)) = a

\* The user path, joined with the workspace root and normalised, is outside the root.
Outside(user_path) ==
    ~IsPrefix(WORKSPACE_DIR_INSIDE_CONTAINER,
              Normalize(JoinPath(base_workspace, user_path).parts, <<>>))

ContainsWords(d, w) ==
    \E i \in 1..(Len(d) - Len(w) + 1) : SubSeq(d, i, i + Len(w) - 1) = w

\* C9: each of the five file operations answers a user path that lies outside
\* the workspace root with 400 and a detail that contains 'Invalid path'.
C9_OutsideIsRejected ==
    \A p \in Procs :
        req[p].kind \in FileKinds /\ Outside(req[p].path) =>
            /\ pc[p] = "done"
            /\ resp[p].status = HTTP_400
            /\ ContainsWords(resp[p].detail, <<"Invalid", "path">>)

\* C9 witness: a write to '/workspace/..' was refused with 400.
C9_Witness ==
    \E p \in Procs :
        /\ pc[p] = "done"
        /\ req[p].kind = "write"
        /\ req[p].path = [abs |-> TRUE, segs |-> <<"workspace", "..">>]
        /\ resp[p].status = HTTP_400

\* The user path names something inside the workspace other than its root.
InsideNotRoot(user_path) ==
    /\ ~Outside(user_path)
    /\ Normalize(JoinPath(base_workspace, user_path).parts, <<>>) # WORKSPACE_DIR_INSIDE_CONTAINER

\* The user path resolves to the workspace root itself.
ResolvesToRoot(user_path) ==
    Normalize(JoinPath(base_workspace, user_path).parts, <<>>) = WORKSPACE_DIR_INSIDE_CONTAINER

\* C10: a list request with path '' or '.' is accepted: it is not answered
\* with the 400 of a refused path.
C10_RootIsAccepted ==
    \A p \in Procs :
        req[p].kind = "list" /\ req[p].path \in {EmptyPath, DotPath} =>
            ~(pc[p] = "done" /\ resp[p].status = HTTP_400)

\* C13: a delete of a path inside the workspace other than the root, existing or
\* not, first or repeated, is answered 204.
C13_DeleteAlways204 ==
    \A p \in Procs :
        pc[p] = "done" /\ req[p].kind = "delete" /\ InsideNotRoot(req[p].path) =>
            resp[p].status = HTTP_204

\* C14: a mkdir of a path inside the workspace, first or repeated, is answered 201.
C14_MkdirAlways201 ==
    \A p \in Procs :
        pc[p] = "done" /\ req[p].kind = "mkdir" /\ InsideNotRoot(req[p].path) =>
            resp[p].status = HTTP_201

\* C15: a delete whose path resolves to the workspace root is answered 400
\* without run_in_container being called: no container name is drawn, no
\* engine call is made, and the volumes stay as they are.
C15_RootDeleteRefused ==
    \A p \in Procs :
        req[p].kind = "delete" /\ ResolvesToRoot(req[p].path) =>
            /\ pc[p] = "done"
            /\ resp[p].status = HTTP_400
            /\ req[p].uuid = 0
            /\ calls[p] = NoCalls
            /\ \A v \in VolumeNames : volumes[v] = NoVol

\* C15 witness: a delete of 'a/..' was refused with 400.
C15_Witness ==
    \E p \in Procs :
        /\ pc[p] = "done"
        /\ req[p].kind = "delete"
        /\ req[p].path = [abs |-> FALSE, segs |-> <<"a", "..">>]
        /\ resp[p].status = HTTP_400
        /\ req[p].uuid = 0

\* C16: with session_id set and a temporary mount bound to the working
\* directory, run_in_container raises a 500 without calling containers.run,
\* the configuration error whenever the volume was obtained; and no container
\* ever has both a temporary mount and the session volume at the same path.
C16_MountConflictRefused ==
    /\ \A p \in Procs :
          /\ req[p].kind = "run"
          /\ req[p].session_id # NoSession
          /\ req[p].temp = WORKSPACE_DIR_INSIDE_CONTAINER
          => /\ pc[p] \in {"vol_get", "vol_create", "done"}
             /\ calls[p].run = None
             /\ containers[req[p].uuid].state = "absent"
             /\ pc[p] = "done" => result[p].how = "raise" /\ result[p].exc.status = HTTP_500
             /\ pc[p] = "done" /\ session_volume[p] # NoVolume =>
                    result[p].exc.detail = MountConflict
    /\ \A c \in Ids :
          ~(containers[c].mount # NoVolume /\ containers[c].temp = WORKSPACE_DIR_INSIDE_CONTAINER)

\* C16 witness: the session volume was created, then the conflict was raised.
C16_Witness ==
    \E p \in Procs :
        /\ pc[p] = "done"
        /\ req[p].kind = "run"
        /\ req[p].temp = WORKSPACE_DIR_INSIDE_CONTAINER
        /\ calls[p].create = "created"
        /\ result[p] = Raised(HTTPException(HTTP_500, MountConflict))

ChartOver(p) == req[p].kind = "chart" /\ pc[p] \in {"respond", "sent", "done"}
ChartExited(p) == ChartOver(p) /\ calls[p].wait = "exit"

\* C17: once a chart request is over, its response sent and the background
\* work done, the host temporary directory is gone, whatever the exit path;
\* and the directory of a successful request is still there while the image
\* is being sent.
C17_TempDirDeleted ==
    \A p \in Procs :
        /\ (req[p].kind = "chart" /\ pc[p] = "done" => ~temp_dir[p].exists)
        /\ (req[p].kind = "chart" /\ pc[p] \in {"respond", "sent"}
                /\ resp[p].status = HTTP_200 => temp_dir[p].exists /\ temp_dir[p].output)

\* C18: the container of a chart request has the temporary directory mounted
\* read-write at a path other than the workspace root, no session volume, and
\* network mode 'none'.
C18_ChartMount ==
    \A c \in Ids :
        containers[c].command.op = "chart" =>
            /\ containers[c].temp # NoBind
            /\ containers[c].mode = "rw"
            /\ containers[c].temp # WORKSPACE_DIR_INSIDE_CONTAINER
            /\ containers[c].mount = NoVolume
            /\ containers[c].network = "none"

\* C19: a chart container that exited with a nonzero code n is answered 400
\* with a detail that holds 'Exit Code: n' and ends with the last 10 lines of
\* the captured stderr.
C19_ChartFailureIs400 ==
    \A p \in Procs :
        ChartExited(p) /\ exit_code[p] # 0 =>
            /\ resp[p].status = HTTP_400
            /\ ContainsWords(resp[p].detail, <<"Exit Code:", ToString(exit_code[p])>>)
            /\ LET tail == LastLines(splitlines(stderr_str[p]), TailLines)
               IN /\ Len(tail) <= Len(resp[p].detail)
                  /\ SubSeq(resp[p].detail, Len(resp[p].detail) - Len(tail) + 1,
                            Len(resp[p].detail)) = tail

\* C20: a chart container that exited 0 without leaving the output image in
\* the temporary directory is answered 500 with a detail that contains
\* 'failed to produce the expected output file'.
C20_NoOutputIs500 ==
    \A p \in Procs :
        /\ req[p].kind = "chart"
        /\ pc[p] = "respond"
        /\ calls[p].wait = "exit"
        /\ exit_code[p] = 0
        /\ ~temp_dir[p].output
        => /\ resp[p].status = HTTP_500
           /\ ContainsWords(resp[p].detail, <<"failed to produce the expected output file">>)

\* C21 (as stated): the produced program exits 1 when the user code raises,
\* 2 when it finishes without a figure, 3 when saving fails, and 0 only when
\* the figure was saved.
ScriptRan(c) ==
    /\ containers[c].state = "exited"
    /\ containers[c].command.op = "chart"
    /\ containers[c].temp = WORKSPACE_DIR_INSIDE_CONTAINER

Replaced(id) == [i \in 1..Len(id) |-> IF id[i] \in SafeChars THEN id[i] ELSE "_"]
FirstChars(id, n) == SubSeq(id, 1, IF Len(id) < n THEN Len(id) ELSE n)
SanitizedForm(id) == Replaced(FirstChars(id, SanitizedLimit))

C22_VolumeNameForm ==
    (call.fn = "get_session_volume_name" /\ value.returned) =>
        /\ \A i \in 1..2 :
              /\ value.names[i] = SESSION_VOLUME_PREFIX \o SanitizedForm(call.args[i])
              /\ \A j \in 1..Len(value.names[i]) : value.names[i][j] \in SafeChars
        /\ (value.names[1] = value.names[2]
              <=> SanitizedForm(call.args[1]) = SanitizedForm(call.args[2]))

C22_Witness ==
    /\ call.fn = "get_session_volume_name"
    /\ value.returned
    /\ Len(call.args[1]) > SanitizedLimit
    /\ call.args[1][SanitizedLimit] = "/"
    /\ call.args[1] # call.args[2]
    /\ value.names[1] = value.names[2]

\* C23: the container's environment is the defaults overridden key by key by
\* the caller's: with a session and no caller value, PYTHONUSERBASE is
\* <working_dir>/.local and PATH begins with <working_dir>/.local/bin; every
\* key the caller supplies has the caller's value; without a session no
\* default is injected.
C23_EnvironmentMerge ==
    (call.fn = "final_environment" /\ value.returned) =>
        LET a == call.args
            env == value.environment
        IN /\ (a.session_id # NoSession /\ "PYTHONUSERBASE" \notin DOMAIN a.environment
                  => env["PYTHONUSERBASE"] = a.working_dir \o <<".local">>)
           /\ (a.session_id # NoSession /\ "PATH" \notin DOMAIN a.environment
                  => env["PATH"][1] = a.working_dir \o <<".local", "bin">>)
           /\ \A k \in DOMAIN a.environment : env[k] = a.environment[k]
           /\ (a.session_id = NoSession => DOMAIN env = DOMAIN a.environment)

\* C24: a shell request without session_id, or with an empty command, is
\* rejected with 422 before any container is launched.
C24_ShellNeedsSession ==
    \A p \in Procs :
        (req[p].kind = "shell" /\ (req[p].session_id = NoSession \/ req[p].command = EmptyCmd))
            => /\ req[p].uuid = 0
               /\ calls[p].run = None
               /\ (pc[p] = "done" => resp[p].status = HTTP_422)

\* A successful answer of list_directory applied on its own.
Listed == call.fn = "list_directory" /\ value.returned /\ value.response.status = HTTP_200

\* C25 (as stated): each line is classified by its trailing marker, which is
\* stripped: '/' is a directory, '@' a link, '*' or no marker a file; entries
\* named '.' or '..' are dropped.
RECURSIVE ByMarker(_)
ByMarker(lines) ==
    IF lines = <<>> THEN <<>>
    ELSE LET l == Head(lines)
             marked == l # <<>> /\ l[Len(l)] \in {"/", "@", "*"}
             name == IF marked THEN SubSeq(l, 1, Len(l) - 1) ELSE l
             type == IF marked /\ l[Len(l)] = "/" THEN "directory"
                     ELSE IF marked /\ l[Len(l)] = "@" THEN "link" ELSE "file"
         IN IF l = <<>> \/ name \in {<<".">>, <<"..">>}
            THEN ByMarker(Tail(lines))
            ELSE <<[name |-> name, type |-> type]>> \o ByMarker(Tail(lines))

C25_MarkersClassify ==
    (Listed /\ call.args.result.stdout \in Listings)
        => value.response.body.entries = ByMarker(call.args.result.stdout)

\* C25 (amended): a line that ends with '/' is an entry of type directory
\* named by the line without the slash; every other non-empty line is an
\* entry of type file named by the whole line, a trailing '@' or '*'
\* included; entries named '.' or '..' are dropped, and there is no other type.
RECURSIVE BySlash(_)
BySlash(lines) ==
    IF lines = <<>> THEN <<>>
    ELSE LET l == Head(lines)
         IN IF l \in {<<>>, <<".">>, <<"..">>, <<".", "/">>, <<"..", "/">>}
            THEN BySlash(Tail(lines))
            ELSE IF l[Len(l)] = "/"
            THEN <<[name |-> SubSeq(l, 1, Len(l) - 1), type |-> "directory"]>>
                    \o BySlash(Tail(lines))
            ELSE <<[name |-> l, type |-> "file"]>> \o BySlash(Tail(lines))

C25_SlashClassifies ==
    Listed => /\ value.response.body.entries = BySlash(call.args.result.stdout)
              /\ \A i \in 1..Len(value.response.body.entries) :
                    value.response.body.entries[i].type \in {"file", "directory"}

C25_Witness ==
    /\ Listed
    /\ call.args.result.stdout = << <<"a", "@">>, <<"..", "/">> >>
    /\ value.response.body.entries = <<[name |-> <<"a", "@">>, type |-> "file"]>>

\* C26: listing a directory returns exactly one entry per member, with the
\* member's bare name, of type directory exactly for the subdirectories: the
\* directory of file1.txt, file2.log and sub lists as those three.
C26_ListsMembers ==
    \A d \in Directories :
        (call.fn = "list_directory" /\ value.returned
            /\ call.args.result = Returned(0, ls_pA_full_time(d), ""))
        => /\ value.response.status = HTTP_200
           /\ Len(value.response.body.entries) = Len(d)
           /\ {value.response.body.entries[i] : i \in 1..Len(value.response.body.entries)}
                = {[name |-> <<d[i].name>>, type |-> d[i].type] : i \in 1..Len(d)}

\* C27: when the read command exits nonzero the answer is 404 if stderr holds
\* "No such file or directory", else 400 if it holds "Is a directory", else
\* 403 if it holds "Permission denied", else 500; when it exits 0 the answer
\* is 200 with the container's stdout as content.
C27_ReadStatus ==
    (call.fn = "read_file" /\ value.returned /\ call.args.result.how = "return") =>
        LET r == call.args.result
            has(phrase) == Mentions(r.stderr, phrase)
            status == value.response.status
        IN IF r.exit_code = 0
           THEN status = HTTP_200 /\ value.response.body.content = r.stdout
           ELSE /\ has(NoSuchFile) => status = HTTP_404
                /\ (~has(NoSuchFile) /\ has(IsADirectory)) => status = HTTP_400
                /\ (~has(NoSuchFile) /\ ~has(IsADirectory) /\ has(PermissionDenied))
                      => status = HTTP_403
                /\ (~has(NoSuchFile) /\ ~has(IsADirectory) /\ ~has(PermissionDenied))
                      => status = HTTP_500

C27_Witness ==
    /\ call.fn = "read_file"
    /\ value.returned
    /\ call.args.result = Returned(1, "", DeniedNotFound)
    /\ value.response.status = HTTP_404

\* The step of a write that failed: the mkdir of the parent, or the write.
MkdirStepFailed ==
    call.fn = "write_file" /\ value.returned
        /\ call.args.mkdir.how = "return" /\ call.args.mkdir.exit_code # 0
WriteStepFailed ==
    call.fn = "write_file" /\ value.returned /\ Len(value.commands) = 2
        /\ call.args.write.how = "return" /\ call.args.write.exit_code # 0

\* C28 (as stated): a write that fails with "Permission denied" on stderr in
\* either step is answered 403, one that fails with "Is a directory" 400.
C28_EitherStepDenied ==
    /\ MkdirStepFailed =>
          /\ Mentions(call.args.mkdir.stderr, PermissionDenied)
                => value.response.status = HTTP_403
          /\ (Mentions(call.args.mkdir.stderr, IsADirectory)
                /\ ~Mentions(call.args.mkdir.stderr, PermissionDenied))
                => value.response.status = HTTP_400
    /\ WriteStepFailed =>
          /\ Mentions(call.args.write.stderr, PermissionDenied)
                => value.response.status = HTTP_403
          /\ (Mentions(call.args.write.stderr, IsADirectory)
                /\ ~Mentions(call.args.write.stderr, PermissionDenied))
                => value.response.status = HTTP_400

\* C28 (amended): a write whose second step, writing the content, fails with
\* "Permission denied" on stderr is answered 403, and one whose second step
\* fails with "Is a directory" and no "Permission denied" 400; a failure of
\* the first step, creating the parent, is answered 500 whatever its stderr.
C28_WriteStepDenied ==
    /\ MkdirStepFailed => value.response.status = HTTP_500
    /\ WriteStepFailed =>
          /\ Mentions(call.args.write.stderr, PermissionDenied)
                => value.response.status = HTTP_403
          /\ (Mentions(call.args.write.stderr, IsADirectory)
                /\ ~Mentions(call.args.write.stderr, PermissionDenied))
                => value.response.status = HTTP_400

C28_Witness ==
    /\ MkdirStepFailed
    /\ call.args.mkdir.stderr = PermissionDenied
    /\ value.response.status = HTTP_500

\* C29: on a wait timeout run_in_container keeps the exit code at -1 and
\* still reads the logs before it removes the container.
C29_TimeoutStillCollects ==
    \A p \in Procs :
        (calls[p].wait = "ReadTimeout" /\ calls[p].remove # None)
            => exit_code[p] = UnknownExit /\ calls[p].logs # None

\* C30: every answer of a file handler has a status its route documents,
\* however run_in_container ended: list and read in {200, 400, 403, 404, 500},
\* write and delete in {204, 400, 403, 500}, mkdir in {201, 400, 403, 409, 500}.
Documented(kind) ==
    CASE kind \in {"list", "read", "list_directory", "read_file"}
           -> {HTTP_200, HTTP_400, HTTP_403, HTTP_404, HTTP_500}
      [] kind \in {"write", "delete", "write_file", "delete_path"}
           -> {HTTP_204, HTTP_400, HTTP_403, HTTP_500}
      [] kind \in {"mkdir", "create_directory"}
           -> {HTTP_201, HTTP_400, HTTP_403, HTTP_409, HTTP_500}

HandlerCalls == {"list_directory", "read_file", "write_file", "delete_path",
                 "create_directory"}

C30_DocumentedStatus ==
    /\ (call.fn \in HandlerCalls /\ value.returned)
          => value.response.status \in Documented(call.fn)
    /\ \A p \in Procs : (req[p].kind \in FileKinds /\ pc[p] = "done")
          => resp[p].status \in Documented(req[p].kind)

C30_Witness ==
    /\ call.fn = "create_directory"
    /\ value.returned
    /\ call.args.result = Raised(run_except(wait_except(Exc("ReadTimeout"))))
    /\ value.response.status = HTTP_500

\* C31: in a call of run_in_container that obtained a container, the engine
\* calls on it come in the order wait, logs, remove: wait is the first, logs
\* follows a wait that did not time out and precedes the removal, the removal
\* follows logs or a timed-out wait, it is made once, on every way out of the
\* function, and no call on the container follows it. A call's history is
\* cleared only when the caller starts afresh.
C31_CallOrder ==
    [][\A p \in Procs :
         LET h == calls[p]
             k == calls'[p]
         IN /\ (h.wait = None /\ k.wait # None)
                  => h.run = "ok" /\ h.logs = None /\ h.remove = None
            /\ (h.logs = None /\ k.logs # None)
                  => h.wait \notin {None, "ReadTimeout"} /\ h.remove = None
            /\ (h.remove = None /\ k.remove # None)
                  => \/ h.logs # None
                     \/ h.wait = "ReadTimeout" /\ k.logs = None
            /\ h.remove # None => k = h \/ k = NoCalls
            /\ (h.run = "ok" /\ pc[p] = "finally" /\ pc'[p] # "finally")
                  => k.remove # None
            /\ (h.run = "ok" /\ h.wait \notin {None, "ReadTimeout"} /\ k.remove # None)
                  => k.logs # None]_vars

\* A wait that failed with an APIError was followed by logs and the removal.
C31_Witness ==
    \E p \in Procs : /\ calls[p].wait = "APIError"
                      /\ calls[p].logs = "ok"
                      /\ calls[p].remove = "ok"

\* C32: a call of run_in_container whose wait succeeded or failed with an
\* APIError, and whose log collection succeeded or failed with an APIError,
\* returns; the exit code it returns is the status code the container
\* recorded when the wait succeeded and -1 when the wait failed; after a
\* failed log collection both streams are empty and the exit code is the
\* same as after a successful one.
C32_ReturnsDespiteApiErrors ==
    \A p \in Procs :
      (/\ RunnerCalled(p)
       /\ pc[p] \in {"finally", "returned", "done"}
       /\ calls[p].wait \in {"exit", "APIError"}
       /\ calls[p].logs \in {"ok", "APIError"})
      => /\ result[p].how = "return"
         /\ result[p].exit_code = exit_code[p]
         /\ calls[p].wait = "APIError" => result[p].exit_code = UnknownExit
         /\ (calls[p].wait = "exit" /\ pc[p] = "finally")
               => result[p].exit_code = containers[container[p]].code
         /\ calls[p].logs = "APIError"
               => result[p].stdout = "" /\ result[p].stderr = ""

\* A container exited 5, the wait reported it, log collection failed, and the
\* call returned 5 with empty streams.
C32_Witness ==
    \E p \in Procs : /\ pc[p] = "finally"
                      /\ calls[p].wait = "exit"
                      /\ calls[p].logs = "APIError"
                      /\ containers[container[p]].code # 0
                      /\ result[p] = Returned(containers[container[p]].code, "", "")

StepExitedZero(r) == r.how = "return" /\ r.exit_code = 0

\* C33: write_file answers 204 only if the mkdir of the parent and the write
\* of the content both exited 0; when the mkdir exits nonzero or fails, the
\* only command launched is that mkdir, so the command that writes the
\* target is never run.
C33_WriteNeedsBothSteps ==
    (call.fn = "write_file" /\ value.returned)
      => /\ value.response.status = HTTP_204
              => /\ StepExitedZero(call.args.mkdir)
                 /\ StepExitedZero(call.args.write)
                 /\ Len(value.commands) = 2
         /\ ~StepExitedZero(call.args.mkdir)
              => /\ value.response.status # HTTP_204
                 /\ Len(value.commands) = 1
                 /\ \A i \in 1..Len(value.commands) : value.commands[i].op # "printf"

\* The mkdir exited 1 while the write would have succeeded: the answer is 500
\* and the write was not launched.
C33_Witness ==
    /\ call.fn = "write_file"
    /\ value.returned
    /\ call.args.mkdir.how = "return" /\ call.args.mkdir.exit_code = 1
    /\ StepExitedZero(call.args.write)
    /\ value.response.status = HTTP_500
    /\ Len(value.commands) = 1

C38_NameFitsEngine ==
    (call.fn = "get_session_volume_name" /\ value.returned)
      => \A i \in 1..2 : Len(value.names[i]) <= 64

\* C39: the chart endpoint answers 400 only when the script's container ran
\* to an exit whose status the wait reported and that status is not 0; a
\* wait that failed in the engine, leaving the exit code at -1, is answered
\* 500.
C39_UserErrorNeedsExit ==
    \A p \in Procs :
      ChartOver(p) =>
        /\ resp[p].status = HTTP_400
              => calls[p].wait = "exit" /\ result[p].exit_code # 0
        /\ (calls[p].wait = "APIError" /\ calls[p].logs \in {"ok", "APIError"})
              => resp[p].status = HTTP_500

\* C40: whichever way the program create_execution_script produces comes to
\* its exit (the user code raised, no figure was open, saving failed, the
\* figure was saved), plt.close('all') ran before the process exited.
C40_FiguresClosedOnExit ==
    \A c \in Ids : ScriptRan(c) => containers[c].closed

\* C36: a file request whose path the validation rejects performs no engine
\* operation: the step that answers it leaves the containers and the volumes
\* as they were, no volume is looked up or created for it and no container
\* is launched.
C36_RejectionTouchesNothing ==
    [][\A p \in Procs :
         (/\ pc[p] = "idle"
          /\ req'[p].kind \in FileKinds
          /\ resp'[p].status = HTTP_400
          /\ resp'[p].detail \in {InvalidPathDenied, InvalidPathFormat, CannotDeleteRoot})
         => /\ containers' = containers
            /\ volumes' = volumes
            /\ calls'[p] = NoCalls
            /\ req'[p].uuid = 0
            /\ container'[p] = 0
            /\ session_volume'[p] = NoVolume]_vars

\* A write to a path above the workspace was answered 400 with the engine
\* left alone.
C36_Witness ==
    \E p \in Procs : /\ pc[p] = "done"
                      /\ req[p].kind = "write"
                      /\ Outside(req[p].path)
                      /\ resp[p].status = HTTP_400
                      /\ calls[p] = NoCalls
                      /\ \A v \in VolumeNames : ~volumes[v].exists

InEngine(c) == containers[c].state \in {"running", "exited"}

\* C34: in any interleaving of calls of run_in_container, the container name
\* a call draws differs from the name of every other call, earlier ones
\* included; two calls never hold the same container; a container leaves the
\* engine only in the removal step of the call that created it, which
\* touches no other container; and the containers of two calls of one
\* session, which may be in the engine together, mount the same volume, the
\* one named after the session.
C34_OwnContainerOnly ==
    [][/\ \A p \in Procs :
            (req'[p].uuid # 0 /\ req'[p].uuid # req[p].uuid)
              => /\ req'[p].uuid > nextId
                 /\ \A q \in Procs \ {p} : req'[q].uuid # req'[p].uuid
       /\ \A p \in Procs : \A q \in Procs \ {p} :
            /\ (req'[p].uuid # 0) => req'[p].uuid # req'[q].uuid
            /\ (container'[p] # 0) => container'[p] # container'[q]
            /\ (/\ container'[p] # 0 /\ container'[q] # 0
                /\ req'[p].session_id # NoSession
                /\ req'[p].session_id = req'[q].session_id
                /\ calls'[p].remove = None /\ calls'[q].remove = None)
               => /\ containers'[container'[p]].mount = get_session_volume_name(req'[p].session_id)
                  /\ containers'[container'[q]].mount = containers'[container'[p]].mount
       /\ \A c \in Ids :
            (InEngine(c) /\ containers'[c].state \notin {"running", "exited"})
              => /\ \E p \in Procs : /\ container[p] = c
                                      /\ req[p].uuid = c
                                      /\ pc[p] = "finally"
                                      /\ calls[p].remove = None
                                      /\ calls'[p].remove # None
                 /\ \A d \in Ids \ {c} : containers'[d] = containers[d]]_vars

\* Two calls of one session have their containers running at the same time on
\* the same volume.
C34_Witness ==
    \E p \in Procs : \E q \in Procs \ {p} :
        /\ req[p].session_id # NoSession
        /\ req[p].session_id = req[q].session_id
        /\ container[p] # 0 /\ container[q] # 0
        /\ containers[container[p]].state = "running"
        /\ containers[container[q]].state = "running"
        /\ containers[container[p]].mount = containers[container[q]].mount
        /\ containers[container[p]].mount # NoVolume

\* C35: no step of the service removes or replaces a session volume: a
\* volume that exists still exists after the step, and its files change only
\* when a container that mounts it runs a command that writes; and
\* get_or_create_session_volume calls volumes.create only after the lookup
\* reported NotFound.
C35_VolumesStay ==
    [][/\ \A v \in VolumeNames :
            volumes[v].exists
              => /\ volumes'[v].exists
                 /\ (volumes'[v].files # volumes[v].files)
                       => \E c \in Ids : /\ containers[c].state = "running"
                                         /\ containers[c].mount = v
                                         /\ containers[c].command.op = "write"
                                         /\ containers'[c].state = "exited"
       /\ \A p \in Procs :
            (calls[p].create = None /\ calls'[p].create # None)
              => calls[p].get = "NotFound"]_vars

\* A later call of a session found the volume an earlier call created and
\* wrote to, with the file still in it.
C35_Witness ==
    \E p \in Procs : \E v \in VolumeNames :
        /\ calls[p].get = "found"
        /\ calls[p].create = None
        /\ session_volume[p] = v
        /\ volumes[v].exists
        /\ \E f \in Files : volumes[v].files[f] # None

====
